---------------------------- MODULE Spec2Model ----------------------------
(***************************************************************************)
(* State-machine model of arrow2's filter kernel (src/compute/filter.rs):  *)
(* filter, build_filter and filter_chunk, stepped through the mask          *)
(* derivation, the dispatch on the physical type, the chunked compaction   *)
(* of primitive arrays and the growable path of every other array.         *)
(*                                                                         *)
(* Arrays are records [dt, values, validity].  An Option<T> is a sequence  *)
(* of length 0 (None) or 1 (Some).  Element payloads are integers: the     *)
(* kernel never inspects a payload, it only copies it, so distinct         *)
(* payloads per slot are the most general input.                           *)
(***************************************************************************)
EXTENDS Integers, Sequences, FiniteSets, TLC

\* Longest mask / array drawn by Init.
MaxLen == 3
\* Lanes of one SIMD chunk (T::Simd::LANES), scaled down so that arrays of
\* MaxLen slots have full chunks and a remainder.
LANES == 2

VARIABLES
    mode,          \* which calls the caller makes: "filter", "compiled", "chunk"
    columns,       \* the caller's arrays (the columns of the chunk)
    mask,          \* the caller's BooleanArray mask
    pc,            \* position in the code
    task,          \* the top-level call in progress
    cur,           \* index of the column the running call works on
    array,         \* `array` argument of the running filter / compiled filter
    fmask,         \* `filter` argument of the running filter call
    depth,         \* recursion depth of filter (line 247)
    useValidity,   \* whether the compaction runs null_filter_impl
    filter_count,  \* capacity: set bits of the mask
    pos,           \* source cursor of the compaction (0-based slots consumed)
    dst,           \* destination cursor of the compaction
    new,           \* destination values (Vec<T> / growable values)
    new_validity,  \* destination validity bits (MutableBitmap / growable validity)
    chunks,        \* (start, len) runs of the slices iterator
    next_chunk,    \* index of the next run to extend with
    extends,       \* the extend(0, start, len) calls issued by the running call
    filtered,      \* filter_chunk's filtered_arrays so far
    resFilter,     \* per column: Option of filter(columns[c], mask)'s outcome
    resDerived,    \* Option of filter(columns[1], M')'s outcome, M' = values AND validity
    resRefilter,   \* Option of filter(filter(columns[1], mask), all_true)'s outcome
    resCompiled,   \* Option of build_filter(mask)(columns[1])'s outcome
    resChunk,      \* Option of filter_chunk(columns, mask)'s outcome
    threads,       \* per thread: the application of a shared compiled filter it runs
    un,            \* the UnionArray operations' state
    ba,            \* the BooleanArray operations' state
    gr,            \* the Growable's state
    rx,            \* the regex_match call's state
    rgr,           \* the RowGroupReader's state
    rgd,           \* the RowGroupDeserializer's state
    fr,            \* the FileReader's state
    ipc            \* the skip_map call's state

vars == <<mode, columns, mask, pc, task, cur, array, fmask, depth, useValidity,
          filter_count, pos, dst, new, new_validity, chunks, next_chunk, extends,
          filtered, resFilter, resDerived, resRefilter, resCompiled, resChunk,
          threads, un, ba, gr, rx, rgr, rgd, fr, ipc>>

\* The state of filter / build_filter / filter_chunk called by one caller
filterVars == <<mode, columns, mask, pc, task, cur, array, fmask, depth, useValidity,
                filter_count, pos, dst, new, new_validity, chunks, next_chunk, extends,
                filtered, resFilter, resDerived, resRefilter, resCompiled, resChunk>>

\* The state of the readers and of regex_match, and its value while they are
\* not in use
ioVars == <<rx, rgr, rgd, fr, ipc>>
IoIdle == rx = <<>> /\ rgr = <<>> /\ rgd = <<>> /\ fr = <<>> /\ ipc = <<>>

-----------------------------------------------------------------------------
\* Option<T>
None == <<>>
Some(x) == <<x>>
IsSome(o) == o # <<>>
Unwrap(o) == o[1]

Min(a, b) == IF a <= b THEN a ELSE b

\* Physical types (DataType::to_physical_type): Int32 and Date32 are
\* Primitive(Int32); Utf8 and Boolean are not primitive.
PrimitiveTypes == {"Int32", "Date32"}
IsPrimitive(dt) == dt \in PrimitiveTypes

MkArray(dt, values, validity) == [dt |-> dt, values |-> values, validity |-> validity]
MkBoolean(values, validity) == [values |-> values, validity |-> validity]
ArrLen(a) == Len(a.values)
EmptyArray == MkArray("Null", <<>>, None)

-----------------------------------------------------------------------------
\* Bitmap operations (crate::bitmap)

\* Bitmap::null_count: the number of unset bits.
RECURSIVE NullCount(_)
NullCount(bits) ==
    IF bits = <<>> THEN 0
    ELSE (IF Head(bits) THEN 0 ELSE 1) + NullCount(Tail(bits))

\* `&` of two bitmaps of the same length.
BitAnd(a, b) == [i \in 1..Len(a) |-> a[i] /\ b[i]]

\* SlicesIterator: the maximal runs of set bits as (start, len), start 0-based,
\* scanning from slot `from` (1-based) with the open run `run` (None or Some(start)).
RECURSIVE SlicesFrom(_, _, _)
SlicesFrom(bits, from, run) ==
    IF from > Len(bits)
    THEN IF IsSome(run) THEN << <<Unwrap(run), Len(bits) - Unwrap(run)>> >> ELSE <<>>
    ELSE IF bits[from]
         THEN SlicesFrom(bits, from + 1, IF IsSome(run) THEN run ELSE Some(from - 1))
         ELSE IF IsSome(run)
              THEN << <<Unwrap(run), (from - 1) - Unwrap(run)>> >>
                       \o SlicesFrom(bits, from + 1, None)
              ELSE SlicesFrom(bits, from + 1, None)

Slices(bits) == SlicesFrom(bits, 1, None)
\* SlicesIterator::slots: the number of set bits.
Slots(bits) == Len(bits) - NullCount(bits)


-----------------------------------------------------------------------------
\* Growable (crate::array::growable), single source

\* make_growable(&[array], use_validity, capacity): the output tracks validity
\* when asked to or when the source carries a validity bitmap.
GrowableTracksValidity(a, use_validity) == use_validity \/ IsSome(a.validity)

\* The validity bits of the run [start, start+len) of `a` (0-based start).
RunValidity(a, start, len) ==
    IF IsSome(a.validity)
    THEN SubSeq(Unwrap(a.validity), start + 1, start + len)
    ELSE [i \in 1..len |-> TRUE]

\* Growable::extend(0, start, len) is defined for runs inside the source.
ExtendInBounds(a, start, len) == start + len <= ArrLen(a)

\* Finalization (as_box / into): the accumulated values with the source's data type.
GrowableFinish(a, values, validity, tracks) ==
    MkArray(a.dt, values, IF tracks THEN Some(validity) ELSE None)

\* Chunk::try_new: Ok iff all arrays have the same length.
ChunkTryNew(arrays) ==
    IF \A i, j \in 1..Len(arrays) : ArrLen(arrays[i]) = ArrLen(arrays[j])
    THEN [outcome |-> "ok", cols |-> arrays]
    ELSE [outcome |-> "err", cols |-> <<>>]

\* From<MutableBitmap> for Option<Bitmap> (validity.into(), line 156)
IntoOptionBitmap(bits) == Some(bits)

-----------------------------------------------------------------------------
\* Outcomes of a call: Ok(array), or a panic
Ok(a) == [outcome |-> "ok", arr |-> a]
Panic == [outcome |-> "panic", arr |-> EmptyArray]

\* Inputs
Modes == {"filter", "compiled", "chunk"}
DataTypes == {"Int32", "Date32", "Utf8"}
Bitmaps(n) == [1..n -> BOOLEAN]
OptBitmaps(n) == {None} \cup {Some(b) : b \in Bitmaps(n)}
Masks(n) == {MkBoolean(v, val) : v \in Bitmaps(n), val \in OptBitmaps(n)}
\* slot i of a drawn array holds the payload base + i
Payload(base, n) == [i \in 1..n |-> base + i]
AllTrue(n) == [i \in 1..n |-> TRUE]
Arrays(n) == {MkArray(dt, Payload(10, n), val) : dt \in DataTypes, val \in OptBitmaps(n)}
\* a second column of the same length and validity, of the other data type
OtherType(dt) == IF dt = "Utf8" THEN "Int32" ELSE "Utf8"
SecondColumn(a) == MkArray(OtherType(a.dt), Payload(20, ArrLen(a)), a.validity)

\* The documented scenarios: the doc example of filter (lines 232-236) and the
\* Boolean array [true, null, false] under an all-true mask.
DocArray == MkArray("Int32", <<5, 6, 7, 8, 9>>, None)
DocMask == MkBoolean(<<TRUE, FALSE, FALSE, TRUE, FALSE>>, None)
BoolArray == MkArray("Boolean", <<1, 0, 0>>, Some(<<TRUE, FALSE, TRUE>>))
BoolMask == MkBoolean(AllTrue(3), None)

InitLocals ==
    /\ pc = "idle" /\ task = "none" /\ cur = 0
    /\ array = EmptyArray /\ fmask = MkBoolean(<<>>, None) /\ depth = 0
    /\ useValidity = FALSE /\ filter_count = 0 /\ pos = 0 /\ dst = 0
    /\ new = <<>> /\ new_validity = <<>>
    /\ chunks = <<>> /\ next_chunk = 0 /\ extends = <<>>
    /\ filtered = <<>>
    /\ resDerived = None /\ resRefilter = None /\ resCompiled = None /\ resChunk = None

Init ==
    /\ mode \in Modes
    /\ \/ \E n \in 0..MaxLen : \E m \in Masks(n) : \E a \in Arrays(n) :
            /\ mask = m
            /\ columns \in (IF mode = "chunk" THEN {<<a>>, <<a, SecondColumn(a)>>} ELSE {<<a>>})
       \/ \E n \in 0..MaxLen, k \in 0..MaxLen : \E m \in Masks(n) : \E a \in Arrays(k) :
            /\ mode = "filter" /\ n # k
            /\ mask = m /\ columns = <<a>>
       \/ /\ mask = DocMask /\ columns = <<DocArray>>
       \/ /\ mask = BoolMask /\ columns = <<BoolArray>>
    /\ resFilter = [c \in 1..Len(columns) |-> None]
    /\ InitLocals
    /\ threads = <<>> /\ un = <<>> /\ ba = <<>> /\ gr = <<>>
    /\ IoIdle

-----------------------------------------------------------------------------
\* Return of the running call to its caller: the locals are dropped and the
\* outcome lands where the caller keeps it.  An outcome other than Ok inside
\* filter_chunk ends filter_chunk with it (`?` / unwinding).
ResetLocals ==
    /\ array' = EmptyArray /\ fmask' = MkBoolean(<<>>, None) /\ depth' = 0
    /\ useValidity' = FALSE /\ pos' = 0 /\ dst' = 0
    /\ new' = <<>> /\ new_validity' = <<>>
    /\ next_chunk' = 0 /\ extends' = <<>>

Deliver(r) ==
    /\ resFilter' = IF task = "filter" THEN [resFilter EXCEPT ![cur] = Some(r)] ELSE resFilter
    /\ resDerived' = IF task = "derived" THEN Some(r) ELSE resDerived
    /\ resRefilter' = IF task = "refilter" THEN Some(r) ELSE resRefilter
    /\ resCompiled' = IF task = "compiled" THEN Some(r) ELSE resCompiled
    /\ IF task = "chunk" /\ r.outcome = "ok"
       THEN /\ filtered' = Append(filtered, r.arr)
            /\ pc' = "chunk_columns"
            /\ UNCHANGED <<task, cur, chunks, filter_count, resChunk>>
       ELSE /\ filtered' = <<>>
            /\ pc' = "idle" /\ task' = "none" /\ cur' = 0
            /\ chunks' = <<>> /\ filter_count' = 0
            /\ resChunk' = IF task = "chunk"
                           THEN Some([outcome |-> r.outcome, cols |-> <<>>])
                           ELSE resChunk
    /\ ResetLocals
    /\ UNCHANGED <<mode, columns, mask>>

-----------------------------------------------------------------------------
\* filter (lines 240-263)

\* The caller invokes filter(columns[c], mask).
CallFilter(c) ==
    /\ pc = "idle" /\ ~IsSome(resFilter[c])
    /\ \A b \in 1..(c - 1) : IsSome(resFilter[b])
    /\ pc' = "filter_entry" /\ task' = "filter" /\ cur' = c
    /\ array' = columns[c] /\ fmask' = mask /\ depth' = 0
    /\ UNCHANGED <<mode, columns, mask, useValidity, filter_count, pos, dst, new,
                   new_validity, chunks, next_chunk, extends, filtered, resFilter,
                   resDerived, resRefilter, resCompiled, resChunk>>

\* Mutant: the validity is dropped without being ANDed into the values.
FilterMaskValidity_DropsValidity ==
    /\ pc = "filter_entry" /\ IsSome(fmask.validity)
    /\ fmask' = MkBoolean(fmask.values, None)
    /\ depth' = depth + 1
    /\ UNCHANGED <<mode, columns, mask, pc, task, cur, array, useValidity, filter_count,
                   pos, dst, new, new_validity, chunks, next_chunk, extends, filtered,
                   resFilter, resDerived, resRefilter, resCompiled, resChunk>>

\* Mutant: `|` in place of `&`.
FilterMaskValidity_Or ==
    /\ pc = "filter_entry" /\ IsSome(fmask.validity)
    /\ fmask' = MkBoolean([i \in 1..Len(fmask.values) |->
                              fmask.values[i] \/ Unwrap(fmask.validity)[i]], None)
    /\ depth' = depth + 1
    /\ UNCHANGED <<mode, columns, mask, pc, task, cur, array, useValidity, filter_count,
                   pos, dst, new, new_validity, chunks, next_chunk, extends, filtered,
                   resFilter, resDerived, resRefilter, resCompiled, resChunk>>

\* lines 243-248: the mask carries a validity: AND it into the values and recurse.
FilterMaskValidity ==
    /\ pc = "filter_entry" /\ IsSome(fmask.validity)
    /\ fmask' = MkBoolean(BitAnd(fmask.values, Unwrap(fmask.validity)), None)
    /\ depth' = depth + 1
    /\ UNCHANGED <<mode, columns, mask, pc, task, cur, array, useValidity, filter_count,
                   pos, dst, new, new_validity, chunks, next_chunk, extends, filtered,
                   resFilter, resDerived, resRefilter, resCompiled, resChunk>>

\* lines 250-262: dispatch on the physical type.  Primitive arrays go to
\* filter_primitive; every other array gets a growable fed by the slices iterator.
FilterDispatch ==
    /\ pc = "filter_entry" /\ ~IsSome(fmask.validity)
    /\ IF IsPrimitive(array.dt)
       THEN /\ pc' = "primitive"
            /\ UNCHANGED <<chunks, filter_count, useValidity>>
       ELSE /\ pc' = "growable"
            /\ chunks' = Slices(fmask.values)
            /\ filter_count' = Slots(fmask.values)
            /\ useValidity' = GrowableTracksValidity(array, FALSE)
    /\ UNCHANGED <<mode, columns, mask, task, cur, array, fmask, depth, pos, dst, new,
                   new_validity, next_chunk, extends, filtered, resFilter, resDerived,
                   resRefilter, resCompiled, resChunk>>

-----------------------------------------------------------------------------
\* Compaction of a primitive array (lines 15-169)

\* chunks_exact(LANES) zipped with the mask's exact chunks: slots in full chunks
FullLanes == LANES * Min(ArrLen(array) \div LANES, Len(fmask.values) \div LANES)
\* the remainders zipped
RemValuesBase == LANES * (ArrLen(array) \div LANES)
RemMaskBase == LANES * (Len(fmask.values) \div LANES)
RemLanes == Min(ArrLen(array) - RemValuesBase, Len(fmask.values) - RemMaskBase)

\* dst.write(v): store v at the destination cursor
WriteAt(seq, at, v) ==
    IF at < Len(seq) THEN [seq EXCEPT ![at + 1] = v] ELSE Append(seq, v)

\* filter_primitive -> filter_nonnull_primitive -> {null,nonnull}_filter_simd:
\* the length assertions (lines 152, 121, 135), the capacity and the cursors.
FilterNonnullPrimitive ==
    /\ pc = "primitive"
    /\ IF ArrLen(array) # Len(fmask.values)
       THEN Deliver(Panic)
       ELSE /\ pc' = "compact"
            /\ useValidity' = IsSome(array.validity)
            /\ filter_count' = Len(fmask.values) - NullCount(fmask.values)
            /\ pos' = 0 /\ dst' = 0 /\ new' = <<>> /\ new_validity' = <<>>
            /\ UNCHANGED <<mode, columns, mask, task, cur, array, fmask, depth, chunks,
                           next_chunk, extends, filtered, resFilter, resDerived,
                           resRefilter, resCompiled, resChunk>>

\* Mutant: the validity bit is read at the destination cursor, not at the source slot.
Lane_ValidityAtDst(vi, mi) ==
    /\ pos' = pos + 1
    /\ IF fmask.values[mi]
       THEN /\ new' = WriteAt(new, dst, array.values[vi])
            /\ dst' = dst + 1
            /\ new_validity' = IF useValidity
                               THEN Append(new_validity, Unwrap(array.validity)[dst + 1])
                               ELSE new_validity
       ELSE UNCHANGED <<new, dst, new_validity>>
    /\ UNCHANGED <<mode, columns, mask, pc, task, cur, array, fmask, depth, useValidity,
                   filter_count, chunks, next_chunk, extends, filtered, resFilter,
                   resDerived, resRefilter, resCompiled, resChunk>>

\* Mutant: the destination cursor advances on every lane.
Lane_AlwaysAdvance(vi, mi) ==
    /\ pos' = pos + 1
    /\ dst' = dst + 1
    /\ IF fmask.values[mi]
       THEN /\ new' = WriteAt(new, dst, array.values[vi])
            /\ new_validity' = IF useValidity
                               THEN Append(new_validity, Unwrap(array.validity)[vi])
                               ELSE new_validity
       ELSE UNCHANGED <<new, new_validity>>
    /\ UNCHANGED <<mode, columns, mask, pc, task, cur, array, fmask, depth, useValidity,
                   filter_count, chunks, next_chunk, extends, filtered, resFilter,
                   resDerived, resRefilter, resCompiled, resChunk>>

\* One lane: on a set mask bit copy the value (and the validity bit) and advance.
Lane(vi, mi) ==
    /\ pos' = pos + 1
    /\ IF fmask.values[mi]
       THEN /\ new' = WriteAt(new, dst, array.values[vi])
            /\ dst' = dst + 1
            /\ new_validity' = IF useValidity
                               THEN Append(new_validity, Unwrap(array.validity)[vi])
                               ELSE new_validity
       ELSE UNCHANGED <<new, dst, new_validity>>
    /\ UNCHANGED <<mode, columns, mask, pc, task, cur, array, fmask, depth, useValidity,
                   filter_count, chunks, next_chunk, extends, filtered, resFilter,
                   resDerived, resRefilter, resCompiled, resChunk>>

\* lines 27-40 / 79-95: one lane of a full chunk
ChunkLane ==
    /\ pc = "compact" /\ pos < FullLanes
    /\ Lane(pos + 1, pos + 1)

\* Mutant: the remainder's values are read from the start of the array.
RemainderLane_NoBase ==
    /\ pc = "compact" /\ pos >= FullLanes /\ pos < FullLanes + RemLanes
    /\ Lane((pos - FullLanes) + 1, RemMaskBase + (pos - FullLanes) + 1)

\* lines 42-53 / 97-110: one slot of the remainder
RemainderLane ==
    /\ pc = "compact" /\ pos >= FullLanes /\ pos < FullLanes + RemLanes
    /\ Lane(RemValuesBase + (pos - FullLanes) + 1, RemMaskBase + (pos - FullLanes) + 1)

\* Mutant: the validity is not handed to the result.
PrimitiveFromData_NoValidity(a, values, validity) == MkArray(a.dt, values, None)
\* Mutant: the result gets the native type's default data type.
PrimitiveFromData_NativeType(a, values, validity) == MkArray("Int32", values, validity)

\* PrimitiveArray::from_data(array.data_type().clone(), values, validity)
PrimitiveFromData(a, values, validity) == MkArray(a.dt, values, validity)

\* lines 55 / 112 and 156 / 159: set_len(filter_count) and the result array.
\* set_len to a length other than the number of slots written is undefined.
SetLen ==
    /\ pc = "compact" /\ pos = FullLanes + RemLanes
    /\ IF dst = filter_count
       THEN Deliver(Ok(PrimitiveFromData(array, new,
                        IF useValidity THEN IntoOptionBitmap(new_validity) ELSE None)))
       ELSE /\ pc' = "undefined"
            /\ UNCHANGED <<mode, columns, mask, task, cur, array, fmask, depth,
                           useValidity, filter_count, pos, dst, new, new_validity, chunks,
                           next_chunk, extends, filtered, resFilter, resDerived,
                           resRefilter, resCompiled, resChunk>>

-----------------------------------------------------------------------------
\* Growable path (lines 171-175, 186-217, 256-261)

\* Mutant: the run is extended one slot short.
GrowExtend_OneShort ==
    /\ pc = "growable" /\ next_chunk < Len(chunks)
    /\ LET start == chunks[next_chunk + 1][1]
           len == chunks[next_chunk + 1][2] - 1
       IN IF ~ExtendInBounds(array, start, len + 1)
          THEN Deliver(Panic)
          ELSE /\ new' = new \o SubSeq(array.values, start + 1, start + len)
               /\ new_validity' = IF useValidity
                                  THEN new_validity \o RunValidity(array, start, len)
                                  ELSE new_validity
               /\ next_chunk' = next_chunk + 1
               /\ extends' = Append(extends, <<start, len>>)
               /\ UNCHANGED <<mode, columns, mask, pc, task, cur, array, fmask, depth,
                              useValidity, filter_count, pos, dst, chunks, filtered,
                              resFilter, resDerived, resRefilter, resCompiled, resChunk>>

\* Mutant: every run is extended with twice.
GrowExtend_RunTwice ==
    /\ pc = "growable" /\ next_chunk < Len(chunks)
    /\ LET start == chunks[next_chunk + 1][1]
           len == chunks[next_chunk + 1][2]
       IN IF ~ExtendInBounds(array, start, len)
          THEN Deliver(Panic)
          ELSE /\ new' = new \o SubSeq(array.values, start + 1, start + len)
                             \o SubSeq(array.values, start + 1, start + len)
               /\ new_validity' = IF useValidity
                                  THEN new_validity \o RunValidity(array, start, len)
                                                    \o RunValidity(array, start, len)
                                  ELSE new_validity
               /\ next_chunk' = next_chunk + 1
               /\ extends' = extends \o << <<start, len>>, <<start, len>> >>
               /\ UNCHANGED <<mode, columns, mask, pc, task, cur, array, fmask, depth,
                              useValidity, filter_count, pos, dst, chunks, filtered,
                              resFilter, resDerived, resRefilter, resCompiled, resChunk>>

\* One run of the slices iterator: growable.extend(0, start, len).
GrowExtend ==
    /\ pc = "growable" /\ next_chunk < Len(chunks)
    /\ LET start == chunks[next_chunk + 1][1]
           len == chunks[next_chunk + 1][2]
       IN IF ~ExtendInBounds(array, start, len)
          THEN Deliver(Panic)
          ELSE /\ new' = new \o SubSeq(array.values, start + 1, start + len)
               /\ new_validity' = IF useValidity
                                  THEN new_validity \o RunValidity(array, start, len)
                                  ELSE new_validity
               /\ next_chunk' = next_chunk + 1
               /\ extends' = Append(extends, <<start, len>>)
               /\ UNCHANGED <<mode, columns, mask, pc, task, cur, array, fmask, depth,
                              useValidity, filter_count, pos, dst, chunks, filtered,
                              resFilter, resDerived, resRefilter, resCompiled, resChunk>>

\* The iterator is exhausted: as_box / into.
GrowFinish ==
    /\ pc = "growable" /\ next_chunk = Len(chunks)
    /\ Deliver(Ok(GrowableFinish(array, new, new_validity, useValidity)))

-----------------------------------------------------------------------------
\* build_filter (lines 180-219)

\* lines 181-183: the runs and the count are taken from filter.values()
BuildFilterChunks(filter) == Slices(filter.values)
BuildFilterCount(filter) == Slots(filter.values)

\* The caller invokes build_filter(mask) and keeps the closure.
CallBuildFilter ==
    /\ pc = "idle" /\ mode = "compiled"
    /\ IsSome(resFilter[1]) /\ ~IsSome(resCompiled)
    /\ pc' = "compiled" /\ task' = "compiled" /\ cur' = 1
    /\ chunks' = BuildFilterChunks(mask)
    /\ filter_count' = BuildFilterCount(mask)
    /\ UNCHANGED <<mode, columns, mask, array, fmask, depth, useValidity, pos, dst, new,
                   new_validity, next_chunk, extends, filtered, resFilter, resDerived,
                   resRefilter, resCompiled, resChunk>>

\* lines 186-217: the closure applied to an array: a growable of capacity
\* filter_count over the array, extended with the captured runs.
ApplyFilter(a) ==
    /\ array' = a
    /\ useValidity' = GrowableTracksValidity(a, FALSE)
    /\ new' = <<>> /\ new_validity' = <<>> /\ next_chunk' = 0 /\ extends' = <<>>
    /\ pc' = "growable"

\* The caller applies the closure to columns[1].
ApplyCompiled ==
    /\ pc = "compiled"
    /\ ApplyFilter(columns[cur])
    /\ UNCHANGED <<mode, columns, mask, task, cur, fmask, depth, filter_count, pos, dst,
                   chunks, filtered, resFilter, resDerived, resRefilter, resCompiled,
                   resChunk>>

-----------------------------------------------------------------------------
\* filter_chunk (lines 267-285)

\* lines 271-282: one column goes through filter, several through build_filter.
CallFilterChunk ==
    /\ pc = "idle" /\ mode = "chunk"
    /\ \A c \in 1..Len(columns) : IsSome(resFilter[c])
    /\ ~IsSome(resChunk)
    /\ task' = "chunk" /\ filtered' = <<>>
    /\ IF Len(columns) = 1
       THEN /\ pc' = "filter_entry" /\ cur' = 1
            /\ array' = columns[1] /\ fmask' = mask /\ depth' = 0
            /\ UNCHANGED <<chunks, filter_count>>
       ELSE /\ pc' = "chunk_columns" /\ cur' = 0
            /\ chunks' = BuildFilterChunks(mask)
            /\ filter_count' = BuildFilterCount(mask)
            /\ UNCHANGED <<array, fmask, depth>>
    /\ UNCHANGED <<mode, columns, mask, useValidity, pos, dst, new, new_validity,
                   next_chunk, extends, resFilter, resDerived, resRefilter, resCompiled,
                   resChunk>>

\* line 281: arrays.iter().map(|a| filter(a.as_ref())): the next column
ChunkColumn ==
    /\ pc = "chunk_columns" /\ Len(filtered) < Len(columns)
    /\ cur' = Len(filtered) + 1
    /\ ApplyFilter(columns[Len(filtered) + 1])
    /\ UNCHANGED <<mode, columns, mask, task, fmask, depth, filter_count, pos, dst,
                   chunks, filtered, resFilter, resDerived, resRefilter, resCompiled,
                   resChunk>>

\* line 284: Chunk::try_new(filtered_arrays)
ChunkReturn ==
    /\ pc = "chunk_columns" /\ Len(filtered) = Len(columns)
    /\ resChunk' = Some(ChunkTryNew(filtered))
    /\ pc' = "idle" /\ task' = "none" /\ cur' = 0
    /\ filtered' = <<>> /\ chunks' = <<>> /\ filter_count' = 0
    /\ UNCHANGED <<mode, columns, mask, array, fmask, depth, useValidity, pos, dst, new,
                   new_validity, next_chunk, extends, resFilter, resDerived, resRefilter,
                   resCompiled>>

-----------------------------------------------------------------------------
\* Further calls of the caller

\* The non-nullable mask whose values are (values AND validity).
DerivedMask(m) == MkBoolean(BitAnd(m.values, Unwrap(m.validity)), None)

\* filter(columns[1], M') for a mask with a validity.
CallFilterDerived ==
    /\ pc = "idle" /\ mode = "filter"
    /\ IsSome(resFilter[1]) /\ ~IsSome(resDerived) /\ IsSome(mask.validity)
    /\ pc' = "filter_entry" /\ task' = "derived" /\ cur' = 1
    /\ array' = columns[1] /\ fmask' = DerivedMask(mask) /\ depth' = 0
    /\ UNCHANGED <<mode, columns, mask, useValidity, filter_count, pos, dst, new,
                   new_validity, chunks, next_chunk, extends, filtered, resFilter,
                   resDerived, resRefilter, resCompiled, resChunk>>

\* filter(r, all_true) for the array r that filter(columns[1], mask) returned.
CallRefilter ==
    /\ pc = "idle" /\ mode = "filter"
    /\ IsSome(resFilter[1]) /\ Unwrap(resFilter[1]).outcome = "ok"
    /\ IsSome(mask.validity) => IsSome(resDerived)
    /\ ~IsSome(resRefilter)
    /\ pc' = "filter_entry" /\ task' = "refilter" /\ cur' = 1
    /\ array' = Unwrap(resFilter[1]).arr
    /\ fmask' = MkBoolean(AllTrue(ArrLen(Unwrap(resFilter[1]).arr)), None)
    /\ depth' = 0
    /\ UNCHANGED <<mode, columns, mask, useValidity, filter_count, pos, dst, new,
                   new_validity, chunks, next_chunk, extends, filtered, resFilter,
                   resDerived, resRefilter, resCompiled, resChunk>>

-----------------------------------------------------------------------------
\* The other components are not touched by the filter kernel.
FilterFrame == UNCHANGED <<threads, un, ba, gr, ioVars>>

Next ==
    \/ \E c \in 1..Len(columns) : CallFilter(c) /\ FilterFrame
    \/ FilterMaskValidity /\ FilterFrame
    \/ FilterDispatch /\ FilterFrame
    \/ FilterNonnullPrimitive /\ FilterFrame
    \/ ChunkLane /\ FilterFrame
    \/ RemainderLane /\ FilterFrame
    \/ SetLen /\ FilterFrame
    \/ GrowExtend /\ FilterFrame
    \/ GrowFinish /\ FilterFrame
    \/ CallBuildFilter /\ FilterFrame
    \/ ApplyCompiled /\ FilterFrame
    \/ CallFilterChunk /\ FilterFrame
    \/ ChunkColumn /\ FilterFrame
    \/ ChunkReturn /\ FilterFrame
    \/ CallFilterDerived /\ FilterFrame
    \/ CallRefilter /\ FilterFrame

Spec == Init /\ [][Next]_vars

-----------------------------------------------------------------------------
\* Vocabulary of the properties

\* slot i of mask m selects: the value is true and the slot is not null
Effective(m, i) == m.values[i] /\ (IsSome(m.validity) => Unwrap(m.validity)[i])
TrueCount(m) == Cardinality({i \in 1..Len(m.values) : Effective(m, i)})

\* the selected slots of m in increasing order
RECURSIVE SelectedFrom(_, _)
SelectedFrom(m, i) ==
    IF i > Len(m.values) THEN <<>>
    ELSE (IF Effective(m, i) THEN <<i>> ELSE <<>>) \o SelectedFrom(m, i + 1)
Selected(m) == SelectedFrom(m, 1)

\* slot i of array a is non-null
Valid(a, i) == IsSome(a.validity) => Unwrap(a.validity)[i]
\* slot i of array a as an Option: None for a null
Slot(a, i) == IF Valid(a, i) THEN Some(a.values[i]) ELSE None
\* equality of arrays by content: type, length and slots
ContentEqual(a, b) ==
    /\ a.dt = b.dt
    /\ ArrLen(a) = ArrLen(b)
    /\ \A i \in 1..ArrLen(a) : Slot(a, i) = Slot(b, i)

SameLength(c) == ArrLen(columns[c]) = Len(mask.values)
Done(c) == IsSome(resFilter[c])
Result(c) == Unwrap(resFilter[c])

\* C1: for len(A) = len(M), filter(A, M) succeeds and its length is the number
\* of slots where M is non-null and true.
C1_FilterCountLaw ==
    \A c \in DOMAIN resFilter :
        (Done(c) /\ SameLength(c)) =>
            /\ Result(c).outcome = "ok"
            /\ ArrLen(Result(c).arr) = TrueCount(mask)

\* C1 witness: a finished filter of a 3-slot primitive array under a mask with a
\* true slot that is null and a true slot that is not.
C1_Witness ==
    /\ Done(1) /\ SameLength(1) /\ Len(mask.values) = 3
    /\ IsPrimitive(columns[1].dt)
    /\ IsSome(mask.validity)
    /\ \E i \in 1..3 : mask.values[i] /\ ~Unwrap(mask.validity)[i]
    /\ TrueCount(mask) = 1
    /\ ArrLen(Result(1).arr) = 1

\* C2: the k-th element of filter(A, M) is the element of A at the k-th selected
\* slot (values and nulls, in the original order); the doc example
\* [5,6,7,8,9] under [T,F,F,T,F] gives [5,8].
C2_FilterSelectsInOrder ==
    /\ \A c \in DOMAIN resFilter :
         (Done(c) /\ SameLength(c)) =>
            LET r == Result(c).arr
                sel == Selected(mask)
            IN /\ ArrLen(r) = Len(sel)
               /\ \A k \in 1..Len(sel) :
                    /\ r.values[k] = columns[c].values[sel[k]]
                    /\ Slot(r, k) = Slot(columns[c], sel[k])
    /\ (columns = <<DocArray>> /\ mask = DocMask /\ Done(1)) =>
            /\ Result(1).arr.values = <<5, 8>>
            /\ \A k \in 1..2 : Valid(Result(1).arr, k)

\* C2 witness: the doc example has run and returned [5,8].
C2_Witness ==
    /\ columns = <<DocArray>> /\ mask = DocMask /\ Done(1)
    /\ Result(1).arr.values = <<5, 8>>

\* C3: build_filter(M) applied to A is content-equal to filter(A, M), also for
\* masks with null slots.
C3_CompiledEquivalence ==
    (IsSome(resCompiled) /\ Done(1) /\ SameLength(1)) =>
        /\ Unwrap(resCompiled).outcome = Result(1).outcome
        /\ ContentEqual(Unwrap(resCompiled).arr, Result(1).arr)

\* C4: a filter call with len(A) # len(M) returns a typed length-mismatch error.
C4_LengthMismatchIsTypedError ==
    \A c \in DOMAIN resFilter :
        (Done(c) /\ ~SameLength(c)) => Result(c).outcome = "err"

\* C5: a mask with a validity is replaced once by the non-nullable mask
\* (values AND validity); deriving again changes nothing; and filter(A, M)
\* equals filter(A, M').
C5_NullMaskSlotsAreFalse ==
    /\ depth <= 1
    /\ (task = "filter" /\ depth = 1) =>
          /\ fmask = DerivedMask(mask)
          /\ ~IsSome(fmask.validity)
          /\ BitAnd(fmask.values, Unwrap(mask.validity)) = fmask.values
    /\ (task = "filter" /\ pc # "filter_entry" /\ IsSome(mask.validity)) => depth = 1
    /\ IsSome(resDerived) => (Done(1) /\ resDerived = resFilter[1])

\* C5 witness: both filter(A, M) and filter(A, M') have returned, M with a true
\* slot that is null and a true slot that is not.
C5_Witness ==
    /\ IsSome(resDerived) /\ Done(1) /\ Result(1).outcome = "ok"
    /\ IsSome(mask.validity)
    /\ \E i \in 1..Len(mask.values) : mask.values[i] /\ ~Unwrap(mask.validity)[i]
    /\ \E i \in 1..Len(mask.values) : Effective(mask, i)

\* C6: every column of filter_chunk's result is content-equal to
\* filter(column, mask), for one column and for several, and all output
\* columns have the same length.
C6_FilterChunkColumns ==
    IsSome(resChunk) =>
        LET out == Unwrap(resChunk)
        IN /\ out.outcome = "ok"
           /\ Len(out.cols) = Len(columns)
           /\ \A j \in 1..Len(columns) :
                /\ Done(j) /\ Result(j).outcome = "ok"
                /\ ContentEqual(out.cols[j], Result(j).arr)
           /\ \A i, j \in 1..Len(out.cols) : ArrLen(out.cols[i]) = ArrLen(out.cols[j])

\* C7: compaction of an array with a validity keeps values and validity
\* slot-aligned: as many validity bits as values, bit k the validity bit of the
\* k-th selected source slot, through the full chunks and the remainder, and
\* in the array returned.
C7_ValidityStaysAligned ==
    /\ (pc = "compact" /\ useValidity) =>
          LET sel == Selected(fmask)
          IN /\ Len(new_validity) = Len(new)
             /\ Len(new) = dst
             /\ dst <= Len(sel)
             /\ \A k \in 1..Len(new) :
                  /\ new[k] = array.values[sel[k]]
                  /\ new_validity[k] = Unwrap(array.validity)[sel[k]]
             /\ (pos = FullLanes + RemLanes) => Len(new_validity) = Len(sel)
    /\ \A c \in DOMAIN resFilter :
         (Done(c) /\ SameLength(c) /\ IsPrimitive(columns[c].dt)
                  /\ IsSome(columns[c].validity)) =>
            LET r == Result(c).arr
                sel == Selected(mask)
            IN /\ ArrLen(r) = Len(sel)
               /\ IsSome(r.validity) => Len(Unwrap(r.validity)) = ArrLen(r)
               /\ \A k \in 1..Len(sel) :
                    Valid(r, k) = Unwrap(columns[c].validity)[sel[k]]

\* C7 witness: the compaction of a 3-slot array with a validity has consumed a
\* full chunk and the remainder, selecting a null slot of the chunk and the
\* valid slot of the remainder.
C7_Witness ==
    /\ pc = "compact" /\ useValidity /\ pos = 3 /\ ArrLen(array) = 3
    /\ FullLanes = 2 /\ RemLanes = 1
    /\ fmask.values = <<TRUE, FALSE, TRUE>>
    /\ new_validity = <<FALSE, TRUE>>

BoolScenario == columns = <<BoolArray>> /\ mask = BoolMask /\ Done(1)

\* C8 as stated: the Boolean array [true, null, false] under the mask
\* [true, true, true] yields [true, null] with validity [1, 0].
C8_BooleanScenarioAsStated ==
    BoolScenario =>
        LET r == Result(1).arr
        IN /\ ArrLen(r) = 2
           /\ Slot(r, 1) = Some(1)
           /\ Slot(r, 2) = None

\* C8 amended: it yields all three slots, [true, null, false] with validity
\* [1, 0, 1].
C8_BooleanScenarioAllSlots ==
    BoolScenario =>
        LET r == Result(1).arr
        IN /\ Result(1).outcome = "ok"
           /\ r.dt = "Boolean"
           /\ ArrLen(r) = 3
           /\ Slot(r, 1) = Some(1)
           /\ Slot(r, 2) = None
           /\ Slot(r, 3) = Some(0)

\* C8 witness: the scenario has run and returned three slots.
C8_Witness == BoolScenario /\ ArrLen(Result(1).arr) = 3

\* C9: filter(A, all_true) is content-equal to A, and
\* filter(filter(A, M), all_true) is content-equal to filter(A, M).
C9_AllTrueIsIdentity ==
    /\ \A c \in DOMAIN resFilter :
         (Done(c) /\ ~IsSome(mask.validity)
                  /\ mask.values = AllTrue(ArrLen(columns[c]))) =>
            /\ Result(c).outcome = "ok"
            /\ ContentEqual(Result(c).arr, columns[c])
    /\ IsSome(resRefilter) =>
            /\ Done(1)
            /\ Unwrap(resRefilter).outcome = "ok"
            /\ ContentEqual(Unwrap(resRefilter).arr, Result(1).arr)

\* C9 witness: filter(A, M) kept two slots, one of them null, dropped another,
\* and the all-true filter of that result has returned.
C9_Witness ==
    /\ IsSome(resRefilter) /\ Done(1) /\ SameLength(1)
    /\ ArrLen(columns[1]) = 3
    /\ ArrLen(Result(1).arr) = 2
    /\ \E k \in 1..2 : ~Valid(Result(1).arr, k)
    /\ ArrLen(Unwrap(resRefilter).arr) = 2

\* C10: every array filter returns has the data type of its input, and a mask
\* without a non-null true slot gives a zero-length array of that data type.
C10_DataTypePreserved ==
    /\ \A c \in DOMAIN resFilter :
         /\ (Done(c) /\ Result(c).outcome = "ok") => Result(c).arr.dt = columns[c].dt
         /\ (Done(c) /\ SameLength(c) /\ TrueCount(mask) = 0) =>
                /\ Result(c).outcome = "ok"
                /\ ArrLen(Result(c).arr) = 0
                /\ Result(c).arr.dt = columns[c].dt
    /\ (IsSome(resDerived) /\ Unwrap(resDerived).outcome = "ok") =>
            Unwrap(resDerived).arr.dt = columns[1].dt
    /\ (IsSome(resRefilter) /\ Unwrap(resRefilter).outcome = "ok") =>
            Unwrap(resRefilter).arr.dt = columns[1].dt

\* C10 witness: a Date32 array of 3 slots filtered by a mask whose only true
\* slots are null came back empty, as Date32.
C10_Witness ==
    /\ Done(1) /\ columns[1].dt = "Date32" /\ ArrLen(columns[1]) = 3
    /\ Len(mask.values) = 3 /\ TrueCount(mask) = 0
    /\ \E i \in 1..3 : mask.values[i]
    /\ Result(1).outcome = "ok"
    /\ ArrLen(Result(1).arr) = 0 /\ Result(1).arr.dt = "Date32"

-----------------------------------------------------------------------------
\* A compiled filter shared by several threads (Filter is Fn + Send + Sync,
\* line 13): build_filter runs once, then each thread applies the closure to
\* a column of its choice, the steps of the applications interleaving.  The
\* closure's captures are `chunks` and `filter_count`; everything else an
\* application touches is local to it.

ThreadIds == {1, 2}

ReadyThread == [pc |-> "ready", col |-> 0, tracks |-> FALSE, new |-> <<>>,
                new_validity |-> <<>>, next_chunk |-> 0, res |-> None]

\* the variables of the single caller that the shared runs leave at rest
SharedFrame ==
    UNCHANGED <<mode, columns, mask, task, cur, array, fmask, depth, useValidity,
                pos, dst, new, new_validity, next_chunk, extends, filtered,
                resFilter, resDerived, resRefilter, resCompiled, resChunk, un, ba, gr,
                ioVars>>

SharedInit ==
    /\ mode = "shared"
    /\ \E n \in 0..MaxLen : \E m \in Masks(n) : \E a \in Arrays(n) :
            /\ a.dt = "Int32"
            /\ mask = m
            /\ columns = <<a, SecondColumn(a)>>
    /\ resFilter = <<>>
    /\ InitLocals
    /\ threads = [t \in ThreadIds |-> ReadyThread]
    /\ un = <<>> /\ ba = <<>> /\ gr = <<>>
    /\ IoIdle

\* lines 180-186: build_filter(mask), the closure handed to the threads
SharedBuildFilter ==
    /\ pc = "idle"
    /\ pc' = "compiled"
    /\ chunks' = BuildFilterChunks(mask)
    /\ filter_count' = BuildFilterCount(mask)
    /\ UNCHANGED threads
    /\ SharedFrame

\* lines 186-191: thread t calls the closure on columns[c]: a new growable
ThreadApply(t, c) ==
    /\ pc = "compiled" /\ threads[t].pc = "ready"
    /\ threads' = [threads EXCEPT ![t] =
            [pc |-> "growable", col |-> c,
             tracks |-> GrowableTracksValidity(columns[c], FALSE),
             new |-> <<>>, new_validity |-> <<>>, next_chunk |-> 0, res |-> None]]
    /\ UNCHANGED <<pc, chunks, filter_count>>
    /\ SharedFrame

\* Mutant: one accumulator serves every running application.
ThreadExtend_SharedAccumulator(t) ==
    /\ pc = "compiled" /\ threads[t].pc = "growable"
    /\ threads[t].next_chunk < Len(chunks)
    /\ LET th == threads[t]
           start == chunks[th.next_chunk + 1][1]
           len == chunks[th.next_chunk + 1][2]
       IN threads' = [u \in ThreadIds |->
                IF u = t \/ threads[u].pc = "growable"
                THEN [threads[u] EXCEPT
                        !.new = @ \o SubSeq(columns[th.col].values, start + 1, start + len),
                        !.new_validity = IF threads[u].tracks
                                         THEN @ \o RunValidity(columns[th.col], start, len)
                                         ELSE @,
                        !.next_chunk = IF u = t THEN @ + 1 ELSE @]
                ELSE threads[u]]
    /\ UNCHANGED <<pc, chunks, filter_count>>
    /\ SharedFrame

\* lines 174 / 212-214: thread t's next growable.extend(0, start, len)
ThreadExtend(t) ==
    /\ pc = "compiled" /\ threads[t].pc = "growable"
    /\ threads[t].next_chunk < Len(chunks)
    /\ LET th == threads[t]
           start == chunks[th.next_chunk + 1][1]
           len == chunks[th.next_chunk + 1][2]
       IN threads' = [threads EXCEPT ![t] =
            IF ~ExtendInBounds(columns[th.col], start, len)
            THEN [th EXCEPT !.pc = "done", !.res = Some(Panic)]
            ELSE [th EXCEPT
                    !.new = @ \o SubSeq(columns[th.col].values, start + 1, start + len),
                    !.new_validity = IF th.tracks
                                     THEN @ \o RunValidity(columns[th.col], start, len)
                                     ELSE @,
                    !.next_chunk = @ + 1]]
    /\ UNCHANGED <<pc, chunks, filter_count>>
    /\ SharedFrame

\* lines 193-194 / 215: the application returns its array
ThreadFinish(t) ==
    /\ pc = "compiled" /\ threads[t].pc = "growable"
    /\ threads[t].next_chunk = Len(chunks)
    /\ LET th == threads[t]
       IN threads' = [threads EXCEPT ![t] =
            [th EXCEPT !.pc = "done",
                       !.res = Some(Ok(GrowableFinish(columns[th.col], th.new,
                                                      th.new_validity, th.tracks)))]]
    /\ UNCHANGED <<pc, chunks, filter_count>>
    /\ SharedFrame

SharedNext ==
    \/ SharedBuildFilter
    \/ \E t \in ThreadIds : \E c \in 1..Len(columns) : ThreadApply(t, c)
    \/ \E t \in ThreadIds : ThreadExtend(t)
    \/ \E t \in ThreadIds : ThreadFinish(t)

SpecShared == SharedInit /\ [][SharedNext]_vars

\* the slots of `seq` in the runs, run after run
RECURSIVE Gather(_, _)
Gather(seq, runs) ==
    IF runs = <<>> THEN <<>>
    ELSE SubSeq(seq, Head(runs)[1] + 1, Head(runs)[1] + Head(runs)[2])
             \o Gather(seq, Tail(runs))

\* what the closure returns for array a when nothing else runs
AppliedAlone(a) ==
    Ok(MkArray(a.dt, Gather(a.values, chunks),
               IF IsSome(a.validity)
               THEN Some(Gather(Unwrap(a.validity), chunks))
               ELSE None))

C11_ResultsAsAlone ==
    \A t \in ThreadIds :
        threads[t].pc = "done" =>
            Unwrap(threads[t].res) = AppliedAlone(columns[threads[t].col])

\* C11: whatever the interleaving of the applications of one compiled filter,
\* each returns what it returns when applied alone, and no step changes the
\* input arrays, the mask or the closure's captures.
C11_CompiledFilterIsStateless ==
    /\ [](mode = "shared" => C11_ResultsAsAlone)
    /\ [][/\ columns' = columns
          /\ mask' = mask
          /\ pc = "compiled" => (chunks' = chunks /\ filter_count' = filter_count)]_vars

\* C11 witness: thread 1 has finished on one column while thread 2 is between
\* the two runs of its application on the other column.
C11_Witness ==
    /\ mode = "shared" /\ Len(chunks) = 2
    /\ threads[1].pc = "done" /\ threads[1].col = 1
    /\ ArrLen(Unwrap(threads[1].res).arr) = 2
    /\ threads[2].pc = "growable" /\ threads[2].col = 2 /\ threads[2].next_chunk = 1

-----------------------------------------------------------------------------
\* UnionArray (array/union/mod.rs).  A union is the record of its six fields;
\* a data type is [members, ids, mode]; reads return <<field index, slot>>,
\* and <<>> stands for a read that panics.

MaxSlots == 2

AsI8(x) == ((x + 128) % 256) - 128

UnionTypes ==
    {[members |-> <<"Int32", "Utf8">>, ids |-> i, mode |-> m] :
        i \in {None, Some(<<1, 0>>), Some(<<5, 7>>)}, m \in {"Sparse", "Dense"}}

Discriminants == {0, 1, 5}

\* a child array of k distinct non-null values
ChildArray(dt, k) ==
    MkArray(dt, [j \in 1..k |-> (IF dt = "Int32" THEN 10 ELSE 20) + j], None)

ChildrenOf(ms, k) == [j \in 1..Len(ms) |-> ChildArray(ms[j], k)]

FieldLists(k) ==
    {ChildrenOf(ms, k) : ms \in {<<"Int32", "Utf8">>, <<"Int32">>, <<"Utf8", "Int32">>,
                                 <<"Int32", "Utf8", "Int32">>}}

OptOffsets(n) == {None} \cup {Some(o) : o \in [1..n -> 0..MaxSlots]}

\* spec 8, scenario 3
ScenarioArgs ==
    [dt |-> [members |-> <<"Int32", "Utf8">>, ids |-> None, mode |-> "Dense"],
     types |-> <<0, 1, 0>>,
     fields |-> <<ChildArray("Int32", 2), ChildArray("Utf8", 1)>>,
     offsets |-> Some(<<0, 0, 1>>)]

FromDataArgs ==
    {ScenarioArgs} \cup
    UNION {[dt : UnionTypes, types : [1..n -> Discriminants],
            fields : FieldLists(n), offsets : OptOffsets(n)] : n \in 0..MaxSlots}

NoArgs == [dt |-> [members |-> <<>>, ids |-> None, mode |-> "Sparse"],
           types |-> <<>>, fields |-> <<>>, offsets |-> None]

\* new_null_array / new_empty_array
NewNullArray(dt, length) ==
    MkArray(dt, [j \in 1..length |-> 0], Some([j \in 1..length |-> FALSE]))

NewEmptyArray(dt) == MkArray(dt, <<>>, None)

\* lines 112-119: type id -> position, later entries replacing earlier ones
FieldsHash(ids, fields) ==
    LET m == Min(Len(ids), Len(fields))
    IN [d \in {AsI8(ids[k]) : k \in 1..m} |->
            (CHOOSE k \in 1..m : /\ AsI8(ids[k]) = d
                                 /\ \A j \in 1..m : AsI8(ids[j]) = d => j <= k) - 1]

\* Mutant: the sparseness check is dropped.
FromData_NoModeCheck(data_type, types, fields, offsets) ==
    IF Len(data_type.members) # Len(fields) THEN <<>>
    ELSE IF \E k \in 1..Len(fields) : data_type.members[k] # fields[k].dt THEN <<>>
    ELSE Some([data_type |-> data_type,
               fields_hash |-> IF IsSome(data_type.ids)
                               THEN Some(FieldsHash(Unwrap(data_type.ids), fields))
                               ELSE None,
               fields |-> fields, offsets |-> offsets, types |-> types, offset |-> 0])

\* lines 91-132: None (<<>>) when from_data panics
FromData(data_type, types, fields, offsets) ==
    IF Len(data_type.members) # Len(fields) THEN <<>>
    ELSE IF \E k \in 1..Len(fields) : data_type.members[k] # fields[k].dt THEN <<>>
    ELSE IF (offsets = None) # (data_type.mode = "Sparse") THEN <<>>
    ELSE Some([data_type |-> data_type,
               fields_hash |-> IF IsSome(data_type.ids)
                               THEN Some(FieldsHash(Unwrap(data_type.ids), fields))
                               ELSE None,
               fields |-> fields, offsets |-> offsets, types |-> types, offset |-> 0])

\* lines 41-61
NewNull(data_type, length) ==
    FromData(data_type,
             [j \in 1..length |-> 0],
             [k \in 1..Len(data_type.members) |-> NewNullArray(data_type.members[k], length)],
             IF data_type.mode = "Sparse" THEN None
             ELSE Some([j \in 1..length |-> j - 1]))

\* lines 64-88
NewEmpty(data_type) ==
    Some([data_type |-> data_type,
          fields_hash |-> None,
          fields |-> [k \in 1..Len(data_type.members) |-> NewEmptyArray(data_type.members[k])],
          offsets |-> IF data_type.mode = "Sparse" THEN None ELSE Some(<<>>),
          types |-> <<>>, offset |-> 0])

\* lines 140-149: Buffer::slice panics beyond the buffer
UnionSliceOf(u, offset, length) ==
    IF offset + length > Len(u.types) THEN <<>>
    ELSE Some([data_type |-> u.data_type,
               fields |-> u.fields,
               fields_hash |-> u.fields_hash,
               types |-> SubSeq(u.types, offset + 1, offset + length),
               offsets |-> u.offsets,
               offset |-> u.offset + offset])

\* Mutant: the slot is always the index, dense or not.
UnionFieldSlot_IgnoresOffsets(u, index) == <<index>>

\* lines 200-205: <<slot>>, or <<>> when offsets[index] is out of bounds
UnionFieldSlot(u, index) ==
    IF IsSome(u.offsets)
    THEN IF index < Len(Unwrap(u.offsets)) THEN <<Unwrap(u.offsets)[index + 1]>> ELSE <<>>
    ELSE <<index>>

\* lines 208-217
UnionIndex(u, index) ==
    IF index >= Len(u.types) THEN <<>>
    ELSE LET type_ == u.types[index + 1]
         IN IF IsSome(u.fields_hash) /\ type_ \notin DOMAIN Unwrap(u.fields_hash) THEN <<>>
            ELSE IF UnionFieldSlot(u, index) = <<>> THEN <<>>
            ELSE <<IF IsSome(u.fields_hash) THEN Unwrap(u.fields_hash)[type_] ELSE type_,
                   UnionFieldSlot(u, index)[1]>>

NoValue == [ok |-> FALSE, valid |-> FALSE, v |-> 0]

\* lines 192-197, 220-225: field(type_) then new_scalar(field, slot)
UnionValue(u, index) ==
    LET at == UnionIndex(u, index)
    IN IF at = <<>> THEN NoValue
       ELSE IF at[1] >= Len(u.fields) THEN NoValue
       ELSE LET field == u.fields[at[1] + 1]
            IN IF at[2] >= ArrLen(field) THEN NoValue
               ELSE [ok |-> TRUE,
                     valid |-> IF IsSome(field.validity)
                               THEN Unwrap(field.validity)[at[2] + 1] ELSE TRUE,
                     v |-> field.values[at[2] + 1]]

\* The caller's view of one union: the last call (op) with its arguments, the
\* array it returned (u), the array it was sliced from (parent) and the last
\* slot read.
UnionStart ==
    [pc |-> "start", op |-> "none", args |-> NoArgs, length |-> 0,
     u |-> None, parent |-> None, so |-> 0, sl |-> 0, sliced |-> "no",
     ri |-> 0, idx |-> <<>>, val |-> NoValue]

UnionFrame == UNCHANGED <<filterVars, threads, ba, gr, ioVars>>

UnionInit ==
    /\ mode = "union"
    /\ columns = <<>>
    /\ mask = MkBoolean(<<>>, None)
    /\ resFilter = <<>>
    /\ InitLocals
    /\ threads = <<>> /\ ba = <<>> /\ gr = <<>>
    /\ IoIdle
    /\ un = UnionStart

Returned(r) == IF r = <<>> THEN "panic" ELSE "array"

UnionFromData ==
    /\ un.pc = "start"
    /\ \E a \in FromDataArgs :
        LET r == FromData(a.dt, a.types, a.fields, a.offsets)
        IN un' = [un EXCEPT !.pc = Returned(r), !.op = "from_data", !.args = a, !.u = r]
    /\ UnionFrame

UnionNewNull ==
    /\ un.pc = "start"
    /\ \E dt \in UnionTypes : \E n \in 0..MaxSlots :
        LET r == NewNull(dt, n)
        IN un' = [un EXCEPT !.pc = Returned(r), !.op = "new_null",
                            !.args = [NoArgs EXCEPT !.dt = dt], !.length = n, !.u = r]
    /\ UnionFrame

UnionNewEmpty ==
    /\ un.pc = "start"
    /\ \E dt \in UnionTypes :
        un' = [un EXCEPT !.pc = "array", !.op = "new_empty",
                         !.args = [NoArgs EXCEPT !.dt = dt], !.u = NewEmpty(dt)]
    /\ UnionFrame

UnionSlice ==
    /\ un.pc = "array" /\ un.sliced # "twice"
    /\ \E offset \in 0..MaxSlots : \E length \in 0..MaxSlots :
        LET r == UnionSliceOf(Unwrap(un.u), offset, length)
        IN un' = [un EXCEPT !.pc = Returned(r), !.op = "slice",
                            !.parent = un.u, !.u = r, !.so = offset, !.sl = length,
                            !.sliced = IF un.sliced = "no" THEN "once" ELSE "twice"]
    /\ UnionFrame

\* index(i) and value(i) of a slot of the array
UnionRead ==
    /\ un.pc = "array"
    /\ \E i \in 0..MaxSlots :
        /\ i < Len(Unwrap(un.u).types)
        /\ un' = [un EXCEPT !.pc = "read", !.ri = i,
                            !.idx = UnionIndex(Unwrap(un.u), i),
                            !.val = UnionValue(Unwrap(un.u), i)]
    /\ UnionFrame

UnionNext ==
    \/ UnionFromData
    \/ UnionNewNull
    \/ UnionNewEmpty
    \/ UnionSlice
    \/ UnionRead

SpecUnion == UnionInit /\ [][UnionNext]_vars

\* slot i of array a and slot j of array b resolve alike
SameSlot(a, i, b, j) ==
    /\ UnionIndex(a, i) = UnionIndex(b, j)
    /\ UnionValue(a, i) = UnionValue(b, j)

\* C12: a slice of a union has the requested length, and its slot i resolves
\* to the same field and in-field position (and value) as slot o + i of the
\* array it was taken from.
C12_UnionSliceReadsParent ==
    (mode = "union" /\ un.op = "slice" /\ un.pc = "array") =>
        /\ Len(Unwrap(un.u).types) = un.sl
        /\ \A i \in 0..(un.sl - 1) :
                SameSlot(Unwrap(un.u), i, Unwrap(un.parent), un.so + i)

\* claim side: where discriminant d stands in the declared ids
PositionIn(ids, d) == (CHOOSE k \in 1..Len(ids) : ids[k] = d) - 1

Declared(dt, d) ==
    IF IsSome(dt.ids) THEN \E k \in 1..Len(Unwrap(dt.ids)) : Unwrap(dt.ids)[k] = d
    ELSE d \in 0..(Len(dt.members) - 1)

Rejected(a) ==
    \/ Len(a.fields) # Len(a.dt.members)
    \/ \E k \in (1..Len(a.fields)) \cap (1..Len(a.dt.members)) :
            a.fields[k].dt # a.dt.members[k]
    \/ (a.offsets = None) # (a.dt.mode = "Sparse")

\* C14: from_data panics exactly on a wrong number of fields, a field of the
\* wrong data type, or offsets whose presence disagrees with the mode; every
\* other input gives an array.
C14_FromDataRejectsIff ==
    (mode = "union" /\ un.op = "from_data" /\ un.sliced = "no") =>
        /\ un.pc = "panic" <=> Rejected(un.args)
        /\ un.pc # "panic" => IsSome(un.u)

\* C14 witness: an accepted dense union whose discriminants and offsets are
\* out of range.
C14_Witness ==
    /\ mode = "union" /\ un.op = "from_data" /\ un.pc = "array"
    /\ un.args.dt.ids = None /\ un.args.types = <<5, 5>>
    /\ un.args.offsets = Some(<<2, 2>>)

\* claim side: slot i of u reads a null slot of a child
ReadsNull(u, i) ==
    /\ UnionIndex(u, i) # <<>>
    /\ UnionValue(u, i).ok /\ ~UnionValue(u, i).valid

\* C15: new_null gives a union of the requested length with all-null
\* children, offsets 0..n when dense and none when sparse, every slot of
\* which reads a null child slot; new_empty gives an empty union of the type.
C15_NewNullAndNewEmpty ==
    /\ (mode = "union" /\ un.op = "new_null" /\ un.sliced = "no") =>
        /\ un.pc # "panic"
        /\ LET u == Unwrap(un.u)
           IN /\ Len(u.types) = un.length
              /\ u.data_type = un.args.dt
              /\ \A k \in 1..Len(u.fields) :
                    u.fields[k] = NewNullArray(un.args.dt.members[k], un.length)
              /\ u.offsets = IF un.args.dt.mode = "Dense"
                             THEN Some([j \in 1..un.length |-> j - 1]) ELSE None
              /\ \A i \in 0..(un.length - 1) : ReadsNull(u, i)
    /\ (mode = "union" /\ un.op = "new_empty") =>
        /\ un.pc = "array"
        /\ Len(Unwrap(un.u).types) = 0
        /\ Unwrap(un.u).data_type = un.args.dt

-----------------------------------------------------------------------------
\* BooleanArray (array/boolean/mod.rs).  A Bitmap is a window of `length`
\* bits starting at bit `offset` of a shared, immutable store; slicing moves
\* the window and never copies.

MkBitmap(bits) == [bytes |-> bits, offset |-> 0, length |-> Len(bits)]

\* Bitmap::get_bit
GetBit(bm, i) == bm.bytes[bm.offset + i + 1]

\* Bitmap::slice_unchecked
BitmapSliceUnchecked(bm, offset, length) ==
    [bytes |-> bm.bytes, offset |-> bm.offset + offset, length |-> length]

\* Bitmap::new_zeroed
BitmapNewZeroed(length) == MkBitmap([j \in 1..length |-> FALSE])

BoolTypes == {"Boolean", "Extension(Boolean)", "Int32"}

\* DataType::to_physical_type
ToPhysicalType(dt) ==
    IF dt \in {"Boolean", "Extension(Boolean)"} THEN "Boolean" ELSE "Primitive"

\* Mutant: the lengths of values and validity are not compared.
BoolFromDataOf_NoLengthCheck(data_type, values, validity) ==
    IF ToPhysicalType(data_type) # "Boolean" THEN <<>>
    ELSE Some([data_type |-> data_type, values |-> values, validity |-> validity])

\* lines 43-55: None (<<>>) when from_data panics
BoolFromDataOf(data_type, values, validity) ==
    IF IsSome(validity) /\ values.length # Unwrap(validity).length THEN <<>>
    ELSE IF ToPhysicalType(data_type) # "Boolean" THEN <<>>
    ELSE Some([data_type |-> data_type, values |-> values, validity |-> validity])

\* lines 29-31
BoolNewEmptyOf(data_type) == BoolFromDataOf(data_type, MkBitmap(<<>>), None)

\* lines 34-37
BoolNewNullOf(data_type, length) ==
    BoolFromDataOf(data_type, BitmapNewZeroed(length), Some(BitmapNewZeroed(length)))

\* BooleanArray::len
BoolLen(b) == b.values.length

\* Mutant: the validity is cloned without being sliced.
BoolSliceUnchecked_ValidityUnsliced(b, offset, length) ==
    [data_type |-> b.data_type,
     values |-> BitmapSliceUnchecked(b.values, offset, length),
     validity |-> b.validity]

\* lines 77-87
BoolSliceUnchecked(b, offset, length) ==
    [data_type |-> b.data_type,
     values |-> BitmapSliceUnchecked(b.values, offset, length),
     validity |-> IF IsSome(b.validity)
                  THEN Some(BitmapSliceUnchecked(Unwrap(b.validity), offset, length))
                  ELSE None]

\* Mutant: the assertion is offset + length < self.len().
BoolSliceOf_PanicsAtEnd(b, offset, length) ==
    IF ~(offset + length < BoolLen(b)) THEN <<>>
    ELSE Some(BoolSliceUnchecked(b, offset, length))

\* lines 63-69
BoolSliceOf(b, offset, length) ==
    IF ~(offset + length <= BoolLen(b)) THEN <<>>
    ELSE Some(BoolSliceUnchecked(b, offset, length))

\* Mutant: the new validity is ANDed into the old one.
BoolWithValidityOf_AndMerge(b, validity) ==
    IF IsSome(validity) /\ Unwrap(validity).length # BoolLen(b) THEN <<>>
    ELSE Some([b EXCEPT !.validity =
                IF IsSome(validity) /\ IsSome(b.validity)
                THEN Some(MkBitmap([j \in 1..BoolLen(b) |->
                            GetBit(Unwrap(validity), j - 1) /\ GetBit(Unwrap(b.validity), j - 1)]))
                ELSE validity])

\* lines 92-99
BoolWithValidityOf(b, validity) ==
    IF IsSome(validity) /\ Unwrap(validity).length # BoolLen(b) THEN <<>>
    ELSE Some([b EXCEPT !.validity = validity])

\* the bitmaps handed to from_data, and the validities handed to with_validity
NewBitmaps(n) == {MkBitmap(bits) : bits \in Bitmaps(n)}

ValiditiesOf(n) ==
    {None, Some(MkBitmap([j \in 1..n |-> j % 2 = 1]))}
        \cup {Some(MkBitmap([j \in 1..k |-> TRUE])) : k \in 0..MaxLen}

BoolStart ==
    [pc |-> "start", op |-> "none", dt |-> "Boolean",
     values |-> MkBitmap(<<>>), validity |-> None,
     b |-> None, recv |-> None, root |-> None, off |-> 0,
     so |-> 0, sl |-> 0, sliced |-> "no", revalidated |-> FALSE]

BoolFrame == UNCHANGED <<filterVars, threads, un, gr, ioVars>>

BoolInit ==
    /\ mode = "boolean"
    /\ columns = <<>>
    /\ mask = MkBoolean(<<>>, None)
    /\ resFilter = <<>>
    /\ InitLocals
    /\ threads = <<>> /\ un = <<>> /\ gr = <<>>
    /\ IoIdle
    /\ ba = BoolStart

\* a constructor returned r: the array is the root of what is sliced next
Built(op, dt, values, validity, r) ==
    [BoolStart EXCEPT !.pc = Returned(r), !.op = op, !.dt = dt, !.values = values,
                      !.validity = validity, !.b = r, !.root = r]

BoolFromData ==
    /\ ba.pc = "start"
    /\ \E dt \in BoolTypes : \E n \in 0..MaxLen : \E values \in NewBitmaps(n) :
       \E validity \in ValiditiesOf(n) :
            ba' = Built("from_data", dt, values, validity,
                        BoolFromDataOf(dt, values, validity))
    /\ BoolFrame

BoolNewNull ==
    /\ ba.pc = "start"
    /\ \E dt \in BoolTypes : \E n \in 0..MaxLen :
            ba' = Built("new_null", dt, BitmapNewZeroed(n), Some(BitmapNewZeroed(n)),
                        BoolNewNullOf(dt, n))
    /\ BoolFrame

BoolNewEmpty ==
    /\ ba.pc = "start"
    /\ \E dt \in BoolTypes :
            ba' = Built("new_empty", dt, MkBitmap(<<>>), None, BoolNewEmptyOf(dt))
    /\ BoolFrame

BoolSlice ==
    /\ ba.pc = "array" /\ ba.sliced # "twice"
    /\ \E offset \in 0..MaxLen : \E length \in 0..MaxLen :
        LET r == BoolSliceOf(Unwrap(ba.b), offset, length)
        IN ba' = [ba EXCEPT !.pc = Returned(r), !.op = "slice", !.recv = ba.b, !.b = r,
                            !.so = offset, !.sl = length, !.off = @ + offset,
                            !.sliced = IF ba.sliced = "no" THEN "once" ELSE "twice"]
    /\ BoolFrame

BoolWithValidity ==
    /\ ba.pc = "array" /\ ~ba.revalidated
    /\ \E validity \in ValiditiesOf(BoolLen(Unwrap(ba.b))) :
        LET r == BoolWithValidityOf(Unwrap(ba.b), validity)
        IN ba' = [ba EXCEPT !.pc = Returned(r), !.op = "with_validity", !.recv = ba.b,
                            !.b = r, !.validity = validity, !.root = r, !.off = 0,
                            !.revalidated = TRUE]
    /\ BoolFrame

BoolNext ==
    \/ BoolFromData
    \/ BoolNewNull
    \/ BoolNewEmpty
    \/ BoolSlice
    \/ BoolWithValidity

SpecBoolean == BoolInit /\ [][BoolNext]_vars

\* lines 117-120 and the validity bit of a slot (<<>> without validity)
BoolValue(b, i) == GetBit(b.values, i)
ValidityBit(b, i) == IF IsSome(b.validity) THEN <<GetBit(Unwrap(b.validity), i)>> ELSE <<>>

\* slot i of a reads as slot j of b
SameBit(a, i, b, j) ==
    /\ BoolValue(a, i) = BoolValue(b, j)
    /\ ValidityBit(a, i) = ValidityBit(b, j)

C16_SliceReads ==
    (mode = "boolean" /\ ba.op = "slice" /\ ba.pc = "array") =>
        /\ BoolLen(Unwrap(ba.b)) = ba.sl
        /\ \A i \in 0..(ba.sl - 1) :
            /\ SameBit(Unwrap(ba.b), i, Unwrap(ba.recv), ba.so + i)
            /\ SameBit(Unwrap(ba.b), i, Unwrap(ba.root), ba.off + i)

C18_Replaced ==
    (mode = "boolean" /\ ba.op = "with_validity") =>
        /\ ba.pc = "panic" <=>
                (IsSome(ba.validity) /\ Unwrap(ba.validity).length # BoolLen(Unwrap(ba.recv)))
        /\ ba.pc = "array" =>
                /\ Unwrap(ba.b).data_type = Unwrap(ba.recv).data_type
                /\ Unwrap(ba.b).values = Unwrap(ba.recv).values
                /\ Unwrap(ba.b).validity = ba.validity

\* C18: with_validity(v) returns the receiver's data type and values with
\* validity v, panics iff v is a bitmap of another length than the array, and
\* leaves the receiver as it was.
C18_WithValidityReplaces ==
    /\ []C18_Replaced
    /\ [][(mode = "boolean" /\ ba'.op = "with_validity" /\ ba' # ba) =>
            ba'.recv = ba.b]_vars

\* C18 witness: a receiver with a null slot was given an all-valid bitmap.
C18_Witness ==
    /\ mode = "boolean" /\ ba.op = "with_validity" /\ ba.pc = "array"
    /\ BoolLen(Unwrap(ba.recv)) >= 2
    /\ IsSome(Unwrap(ba.recv).validity)
    /\ ~GetBit(Unwrap(Unwrap(ba.recv).validity), 1)
    /\ IsSome(ba.validity)
    /\ \A i \in 0..(BoolLen(Unwrap(ba.b)) - 1) : GetBit(Unwrap(Unwrap(ba.b).validity), i)

\* C19: every array returned by from_data, new_null, new_empty, slice or
\* with_validity has no validity or one of its own length, and a data type of
\* the Boolean physical type.
C19_BooleanArrayInvariant ==
    (mode = "boolean" /\ ba.pc = "array") =>
        LET b == Unwrap(ba.b)
        IN /\ IsSome(b.validity) => Unwrap(b.validity).length = BoolLen(b)
           /\ ToPhysicalType(b.data_type) = "Boolean"

\* C19 witness: an extension-typed array after two slices and a new validity.
C19_Witness ==
    /\ mode = "boolean" /\ ba.pc = "array" /\ ba.sliced = "twice" /\ ba.revalidated
    /\ IsSome(Unwrap(ba.b).validity) /\ BoolLen(Unwrap(ba.b)) > 0
    /\ Unwrap(ba.b).data_type = "Extension(Boolean)"

-----------------------------------------------------------------------------
\* Growable over several sources (spec 4.5), and filter_growable driving it.

\* source k holds 10k, 10k + 1, ...
GrowableSource(k, n, validity) == MkArray("Int32", [i \in 1..n |-> 10 * k + i - 1], validity)

SourceValidities(n) == {None, Some([i \in 1..n |-> i % 2 = 1])}

SourceLists ==
    UNION {{<<GrowableSource(1, n, v)>> : v \in SourceValidities(n)} : n \in 0..MaxLen}
        \cup UNION {{<<GrowableSource(1, n1, v1), GrowableSource(2, n2, v2)>> :
                        v1 \in SourceValidities(n1), v2 \in SourceValidities(n2)} :
                    n1 \in 0..MaxLen, n2 \in 0..MaxLen}

\* spec 8, scenario 5
ScenarioSources == <<GrowableSource(1, 3, None), GrowableSource(2, 2, None)>>
ScenarioCalls == << <<0, 1, 2>>, <<1, 0, 1>> >>

GrowableStart ==
    [pc |-> "start", op |-> "none", sources |-> <<>>, tracks |-> FALSE,
     new |-> <<>>, new_validity |-> <<>>, calls |-> <<>>, bits |-> <<>>,
     out |-> None]

GrowableFrame == UNCHANGED <<filterVars, threads, un, ba, ioVars>>

GrowableInit ==
    /\ mode = "growable"
    /\ columns = <<>>
    /\ mask = MkBoolean(<<>>, None)
    /\ resFilter = <<>>
    /\ InitLocals
    /\ threads = <<>> /\ un = <<>> /\ ba = <<>>
    /\ IoIdle
    /\ gr = GrowableStart

\* Growable::extend(index, start, len)
GrowableExtend(g, index, start, len) ==
    IF index >= Len(g.sources) \/ ~ExtendInBounds(g.sources[index + 1], start, len)
    THEN [g EXCEPT !.pc = "panic", !.calls = Append(@, <<index, start, len>>)]
    ELSE [g EXCEPT
            !.new = @ \o SubSeq(g.sources[index + 1].values, start + 1, start + len),
            !.new_validity = IF g.tracks
                             THEN @ \o RunValidity(g.sources[index + 1], start, len)
                             ELSE @,
            !.calls = Append(@, <<index, start, len>>)]

\* Mutant: only the first run is appended.
FilterGrowable_FirstRunOnly(g, runs) ==
    IF runs = <<>> THEN g
    ELSE GrowableExtend(g, 0, Head(runs)[1], Head(runs)[2])

\* filter.rs lines 171-175
RECURSIVE FilterGrowable(_, _)
FilterGrowable(g, runs) ==
    IF runs = <<>> \/ g.pc = "panic" THEN g
    ELSE FilterGrowable(GrowableExtend(g, 0, Head(runs)[1], Head(runs)[2]), Tail(runs))

\* Growable::new(sources, use_validity, capacity)
GrowableNew ==
    /\ gr.pc = "start"
    /\ \E sources \in SourceLists : \E use_validity \in BOOLEAN :
        gr' = [gr EXCEPT !.pc = "open", !.sources = sources,
                         !.tracks = use_validity
                                    \/ \E k \in 1..Len(sources) : IsSome(sources[k].validity)]
    /\ GrowableFrame

GrowableExtendCall ==
    /\ gr.pc = "open" /\ gr.op # "filter"
    /\ Len(gr.calls) < Len(ScenarioCalls)
    /\ \E index \in 0..1 : \E start \in 0..MaxLen : \E len \in 0..MaxLen :
        gr' = [GrowableExtend(gr, index, start, len) EXCEPT !.op = "extend"]
    /\ GrowableFrame

\* filter_growable on a single source with the runs of a mask of its length
GrowableFilter ==
    /\ gr.pc = "open" /\ gr.op = "none" /\ Len(gr.sources) = 1
    /\ \E bits \in Bitmaps(ArrLen(gr.sources[1])) :
        gr' = [FilterGrowable(gr, Slices(bits)) EXCEPT !.op = "filter", !.bits = bits]
    /\ GrowableFrame

\* as_box / into
GrowableAsBox ==
    /\ gr.pc = "open"
    /\ gr' = [gr EXCEPT !.pc = "done",
                        !.out = Some(GrowableFinish(gr.sources[1], gr.new,
                                                    gr.new_validity, gr.tracks))]
    /\ GrowableFrame

GrowableNext ==
    \/ GrowableNew
    \/ GrowableExtendCall
    \/ GrowableFilter
    \/ GrowableAsBox

SpecGrowable == GrowableInit /\ [][GrowableNext]_vars

\* claim side: the slots and validity bits of the requested runs, in call order
RECURSIVE RunsValues(_, _)
RunsValues(sources, calls) ==
    IF calls = <<>> THEN <<>>
    ELSE LET c == Head(calls)
         IN [i \in 1..c[3] |-> sources[c[1] + 1].values[c[2] + i]]
                \o RunsValues(sources, Tail(calls))

RECURSIVE RunsValidity(_, _)
RunsValidity(sources, calls) ==
    IF calls = <<>> THEN <<>>
    ELSE LET c == Head(calls)
             src == sources[c[1] + 1]
         IN [i \in 1..c[3] |-> IF IsSome(src.validity) THEN Unwrap(src.validity)[c[2] + i]
                               ELSE TRUE]
                \o RunsValidity(sources, Tail(calls))

\* C20: the finalized output is the concatenation, in call order, of the runs
\* passed to extend, values and validity; the scenario gives [11, 12, 20]; the
\* filter's single-source use passes exactly the runs of the mask.
C20_GrowableConcatenatesRuns ==
    (mode = "growable" /\ gr.pc = "done") =>
        LET out == Unwrap(gr.out)
        IN /\ out.values = RunsValues(gr.sources, gr.calls)
           /\ out.validity = IF gr.tracks THEN Some(RunsValidity(gr.sources, gr.calls))
                             ELSE None
           /\ (gr.sources = ScenarioSources /\ gr.calls = ScenarioCalls) =>
                out.values = <<11, 12, 20>>
           /\ gr.op = "filter" =>
                gr.calls = [k \in 1..Len(Slices(gr.bits)) |->
                                <<0, Slices(gr.bits)[k][1], Slices(gr.bits)[k][2]>>]

\* C20 witness: the scenario has been finalized.
C20_Witness ==
    /\ mode = "growable" /\ gr.pc = "done"
    /\ gr.sources = ScenarioSources /\ gr.calls = ScenarioCalls
    /\ Unwrap(gr.out).values = <<11, 12, 20>>

-----------------------------------------------------------------------------
\* The cursors of the compaction and the runs of the growable path

C24_CursorWithinCapacity ==
    /\ pc = "compact" =>
        /\ ArrLen(array) = Len(fmask.values)
        /\ filter_count = Len(fmask.values) - NullCount(fmask.values)
        /\ dst <= filter_count
        /\ Len(new) = dst
        /\ pos = FullLanes + RemLanes => dst = filter_count
    /\ pc # "undefined"

\* C24: in the compaction of a primitive array the destination cursor moves
\* by one slot and only on a set mask bit, never passes filter_count, and
\* stands at filter_count after the remainder, every slot below it written
\* once.
C24_DestinationCursor ==
    /\ []C24_CursorWithinCapacity
    /\ [][(pc = "compact" /\ pc' = "compact") =>
            /\ pos' = pos + 1
            /\ IF fmask.values[pos + 1]
               THEN dst' = dst + 1 /\ Len(new') = Len(new) + 1
                    /\ SubSeq(new', 1, dst) = new
               ELSE dst' = dst /\ new' = new]_vars

\* C24 witness: a compaction with source validity has run its full chunk and
\* its remainder and has skipped a slot.
C24_Witness ==
    /\ pc = "compact" /\ useValidity
    /\ RemLanes > 0 /\ pos = FullLanes + RemLanes
    /\ dst = filter_count /\ dst >= 2 /\ dst < pos

\* the bitmap the runs of the running call were taken from
RunBits ==
    IF task = "compiled" \/ (task = "chunk" /\ Len(columns) > 1)
    THEN mask.values ELSE fmask.values

RECURSIVE SumLens(_)
SumLens(runs) == IF runs = <<>> THEN 0 ELSE Head(runs)[2] + SumLens(Tail(runs))

\* runs are the maximal runs of set bits, in increasing order
MaximalRuns(runs, bits) ==
    /\ \A k \in 1..Len(runs) :
        /\ runs[k][2] >= 1
        /\ runs[k][1] + runs[k][2] <= Len(bits)
        /\ \A i \in (runs[k][1] + 1)..(runs[k][1] + runs[k][2]) : bits[i]
    /\ \A k \in 1..(Len(runs) - 1) : runs[k][1] + runs[k][2] < runs[k + 1][1]
    /\ \A i \in 1..Len(bits) :
        bits[i] => \E k \in 1..Len(runs) : runs[k][1] < i /\ i <= runs[k][1] + runs[k][2]

\* C25: on the growable path the extend calls issued so far are the first
\* maximal runs of set mask bits, one call per run in increasing order; the
\* runs neither overlap nor touch, lie inside the mask, and their lengths sum
\* to the capacity hint.
C25_OneExtendPerRun ==
    pc = "growable" =>
        /\ next_chunk <= Len(chunks)
        /\ extends = SubSeq(chunks, 1, next_chunk)
        /\ MaximalRuns(chunks, RunBits)
        /\ SumLens(chunks) = filter_count
        /\ filter_count = Len(RunBits) - NullCount(RunBits)

\* C25 witness: both runs of a mask with a gap have been extended with.
C25_Witness ==
    /\ pc = "growable" /\ next_chunk = Len(chunks)
    /\ extends = << <<0, 1>>, <<2, 1>> >>

-----------------------------------------------------------------------------
\* regex_match (compute/regex_match.rs).  A Utf8Array is [values, validity];
\* a null slot still holds a string.  "(" is a pattern that does not compile.

Utf8(values, validity) == [values |-> values, validity |-> validity]

\* Utf8Array::iter: None at a null slot
IterAt(a, i) ==
    IF IsSome(a.validity) /\ ~Unwrap(a.validity)[i] THEN None ELSE Some(a.values[i])

\* Regex::new(p).is_ok() and Regex::is_match
Compiles(p) == p # "("
IsMatch(p, h) == p = h

Haystacks(n) == {Utf8([i \in 1..n |-> IF i % 2 = 1 THEN "a" ELSE "b"], v) : v \in OptBitmaps(n)}
PatternArrays(n) == {Utf8(ps, v) : ps \in [1..n -> {"a", "("}], v \in OptBitmaps(n)}

\* combine_validities
CombineValidities(a, b) ==
    IF IsSome(a) /\ IsSome(b) THEN Some(BitAnd(Unwrap(a), Unwrap(b)))
    ELSE IF IsSome(a) THEN a ELSE b

InvalidArgumentError == [outcome |-> "err", kind |-> "InvalidArgumentError", arr |-> None]
OkArray(b) == [outcome |-> "ok", kind |-> "none", arr |-> b]

\* Mutant: the pattern is compiled before the nulls are looked at.
RegexSlotOf_CompilesBeforeNullCheck(haystack, regex, values, map) ==
    IF values \in map
    THEN [ok |-> TRUE, compiled |-> FALSE, map |-> map,
          bit |-> IsSome(haystack) /\ IsSome(regex) /\ IsMatch(values, Unwrap(haystack))]
    ELSE IF ~Compiles(values)
         THEN [ok |-> FALSE, bit |-> FALSE, map |-> map, compiled |-> TRUE]
         ELSE [ok |-> TRUE, compiled |-> TRUE, map |-> map \cup {values},
               bit |-> IsSome(haystack) /\ IsSome(regex) /\ IsMatch(values, Unwrap(haystack))]

\* lines 23-46: the closure applied to one pair of slots; `values` is the
\* string stored in the pattern's slot, `map` the patterns compiled so far
RegexSlotOf(haystack, regex, values, map) ==
    IF haystack = None \/ regex = None
    THEN [ok |-> TRUE, bit |-> FALSE, map |-> map, compiled |-> FALSE]
    ELSE IF Unwrap(regex) \in map
         THEN [ok |-> TRUE, bit |-> IsMatch(Unwrap(regex), Unwrap(haystack)),
               map |-> map, compiled |-> FALSE]
         ELSE IF ~Compiles(Unwrap(regex))
              THEN [ok |-> FALSE, bit |-> FALSE, map |-> map, compiled |-> TRUE]
              ELSE [ok |-> TRUE, bit |-> IsMatch(Unwrap(regex), Unwrap(haystack)),
                    map |-> map \cup {Unwrap(regex)}, compiled |-> TRUE]

RegexFrame == UNCHANGED <<filterVars, threads, un, ba, gr, rgr, rgd, fr, ipc>>

RegexInit ==
    /\ mode = "regex"
    /\ columns = <<>>
    /\ mask = MkBoolean(<<>>, None)
    /\ resFilter = <<>>
    /\ InitLocals
    /\ threads = <<>> /\ un = <<>> /\ ba = <<>> /\ gr = <<>>
    /\ rgr = <<>> /\ rgd = <<>> /\ fr = <<>> /\ ipc = <<>>
    /\ \E n \in 0..MaxLen : \E k \in 0..MaxLen :
       \E h \in Haystacks(n) : \E r \in PatternArrays(k) :
            /\ n # k => (h.validity = None /\ r.validity = None)
            /\ rx = [pc |-> "start", values |-> h, regex |-> r, i |-> 0, map |-> {},
                     attempts |-> {}, bits |-> <<>>, validity |-> None, res |-> None]

\* lines 14-21
RegexMatchEntry ==
    /\ rx.pc = "start"
    /\ rx' = IF Len(rx.values.values) # Len(rx.regex.values)
             THEN [rx EXCEPT !.pc = "done", !.res = Some(InvalidArgumentError)]
             ELSE [rx EXCEPT !.pc = "iter",
                             !.validity = CombineValidities(rx.values.validity,
                                                            rx.regex.validity)]
    /\ RegexFrame

\* lines 23-47: the next pair of slots goes through the closure; `?` of
\* try_from_trusted_len_iter returns the first error
RegexMatchSlot ==
    /\ rx.pc = "iter" /\ rx.i < Len(rx.values.values)
    /\ LET i == rx.i + 1
           r == RegexSlotOf(IterAt(rx.values, i), IterAt(rx.regex, i),
                            rx.regex.values[i], rx.map)
       IN rx' = IF r.ok
                THEN [rx EXCEPT !.i = i, !.map = r.map, !.bits = Append(@, r.bit),
                                !.attempts = IF r.compiled THEN @ \cup {i} ELSE @]
                ELSE [rx EXCEPT !.i = i, !.pc = "done",
                                !.attempts = @ \cup {i},
                                !.res = Some(InvalidArgumentError)]
    /\ RegexFrame

\* lines 49-53
RegexMatchReturn ==
    /\ rx.pc = "iter" /\ rx.i = Len(rx.values.values)
    /\ rx' = [rx EXCEPT !.pc = "done",
                !.res = Some(OkArray(BoolFromDataOf("Boolean", MkBitmap(rx.bits),
                            IF IsSome(rx.validity)
                            THEN Some(MkBitmap(Unwrap(rx.validity))) ELSE None)))]
    /\ RegexFrame

RegexNext ==
    \/ RegexMatchEntry
    \/ RegexMatchSlot
    \/ RegexMatchReturn

SpecRegex == RegexInit /\ [][RegexNext]_vars

\* claim side: both the haystack and the pattern of slot i are non-null
BothValid(i) ==
    /\ IsSome(rx.values.validity) => Unwrap(rx.values.validity)[i]
    /\ IsSome(rx.regex.validity) => Unwrap(rx.regex.validity)[i]

\* C23: regex_match returns InvalidArgumentError iff the lengths differ or a
\* slot with both sides non-null holds a pattern that does not compile; a
\* pattern paired with a null is never compiled, and its slot of the result
\* is null with value false.
C23_RegexMatchErrors ==
    mode = "regex" =>
        /\ \A i \in rx.attempts : BothValid(i)
        /\ rx.pc = "done" =>
            LET res == Unwrap(rx.res)
                n == Len(rx.values.values)
            IN /\ res.outcome = "err" <=>
                    \/ n # Len(rx.regex.values)
                    \/ \E i \in 1..n : BothValid(i) /\ ~Compiles(rx.regex.values[i])
               /\ res.outcome = "err" => res.kind = "InvalidArgumentError"
               /\ res.outcome = "ok" =>
                    /\ IsSome(res.arr)
                    /\ BoolLen(Unwrap(res.arr)) = n
                    /\ \A i \in 1..n : ~BothValid(i) =>
                            /\ ValidityBit(Unwrap(res.arr), i - 1) = <<FALSE>>
                            /\ ~BoolValue(Unwrap(res.arr), i - 1)

\* C23 witness: a result with a match, although a non-compiling pattern sat
\* under a null haystack and another in a null pattern slot.
C23_Witness ==
    /\ mode = "regex" /\ rx.pc = "done" /\ Unwrap(rx.res).outcome = "ok"
    /\ \E i, j, k \in 1..Len(rx.bits) :
        /\ rx.regex.values[i] = "(" /\ IterAt(rx.regex, i) = None
        /\ rx.regex.values[j] = "(" /\ IterAt(rx.values, j) = None /\ IterAt(rx.regex, j) # None
        /\ BothValid(k) /\ rx.bits[k]

-----------------------------------------------------------------------------
\* RowGroupDeserializer (io/parquet/read/row_group.rs).  The column iterators
\* advance together, so `column_chunks` is the list of what they return next:
\* an array of `len` rows for every column, or an error.

MaxRows == 3
MaxGroups == 2

\* usize::MAX and arithmetic modulo the width of usize (scaled to 30 bits)
UsizeMax == 1073741823
SaturatingSub(a, b) == IF b >= a THEN 0 ELSE a - b
WrappingSub(a, b) == IF b > a THEN (UsizeMax - (b - a)) + 1 ELSE a - b

ArrayItem(len) == [ok |-> TRUE, len |-> len]
ErrItem == [ok |-> FALSE, len |-> 0]

\* what next() hands out: None, Some(Ok(chunk of `rows` rows)), Some(Err), or a panic
NoItem == [kind |-> "none", rows |-> 0]
ChunkOf(rows) == [kind |-> "chunk", rows |-> rows]
ReadError == [kind |-> "err", rows |-> 0]
Panicked == [kind |-> "panic", rows |-> 0]

Limits == {None} \cup {Some(l) : l \in 0..(2 * MaxRows)}
ChunkSizes == {None, Some(1), Some(2)}

\* column_iter_to_arrays: arrays of chunk_size rows, the last one shorter;
\* one array of all the rows without a chunk size
RECURSIVE ColumnArrays(_, _)
ColumnArrays(num_rows, chunk_size) ==
    IF num_rows = 0 THEN <<>>
    ELSE IF chunk_size = None \/ Unwrap(chunk_size) >= num_rows THEN <<ArrayItem(num_rows)>>
    ELSE <<ArrayItem(Unwrap(chunk_size))>>
            \o ColumnArrays(num_rows - Unwrap(chunk_size), chunk_size)

\* lines 42-52
DeserializerNew(column_chunks, num_rows, limit) ==
    [num_rows |-> num_rows,
     remaining_rows |-> Min(IF IsSome(limit) THEN Unwrap(limit) ELSE UsizeMax, num_rows),
     column_chunks |-> column_chunks]

\* lines 64-87: the deserializer after the call and the item returned.
\* `checked` tells whether the build panics on arithmetic overflow (line 82).
DeserializerNext(d, checked) ==
    IF d.remaining_rows = 0 THEN [d |-> d, item |-> NoItem]
    ELSE IF d.column_chunks = <<>> THEN [d |-> d, item |-> Panicked]
    ELSE LET arr == Head(d.column_chunks)
             rest == [d EXCEPT !.column_chunks = Tail(@)]
         IN IF ~arr.ok
            THEN [d |-> [rest EXCEPT !.remaining_rows = 0], item |-> ReadError]
            ELSE LET len == IF arr.len > d.remaining_rows
                            THEN arr.len - d.remaining_rows
                            ELSE arr.len
                 IN IF len > d.remaining_rows /\ checked
                    THEN [d |-> rest, item |-> Panicked]
                    ELSE [d |-> [rest EXCEPT !.remaining_rows = WrappingSub(@, len)],
                          item |-> ChunkOf(len)]

DeserializerFrame == UNCHANGED <<filterVars, threads, un, ba, gr, rx, rgr, fr, ipc>>

DeserializerInit ==
    /\ mode = "deserializer"
    /\ columns = <<>>
    /\ mask = MkBoolean(<<>>, None)
    /\ resFilter = <<>>
    /\ InitLocals
    /\ threads = <<>> /\ un = <<>> /\ ba = <<>> /\ gr = <<>>
    /\ rx = <<>> /\ rgr = <<>> /\ fr = <<>> /\ ipc = <<>>
    /\ rgd = [pc |-> "start", d |-> DeserializerNew(<<>>, 0, None), limit |-> None,
              yielded |-> <<>>, last |-> NoItem, before |-> 0, len |-> 0]

\* RowGroupDeserializer::new over the arrays of a row group of num_rows rows,
\* one of which may fail to deserialize
DeserializerCreate ==
    /\ rgd.pc = "start"
    /\ \E num_rows \in 0..MaxRows : \E chunk_size \in ChunkSizes : \E limit \in Limits :
       \E bad \in 0..MaxRows :
        LET arrays == ColumnArrays(num_rows, chunk_size)
            column_chunks == [k \in 1..Len(arrays) |-> IF k = bad THEN ErrItem ELSE arrays[k]]
        IN rgd' = [rgd EXCEPT !.pc = "iter", !.limit = limit,
                              !.d = DeserializerNew(column_chunks, num_rows, limit)]
    /\ DeserializerFrame

\* one call of next(); `before` and `len` keep the rows allowed when it was
\* made and the length of the arrays it was given
DeserializerNextCall ==
    /\ rgd.pc = "iter"
    /\ \E checked \in BOOLEAN :
        LET r == DeserializerNext(rgd.d, checked)
        IN rgd' = [rgd EXCEPT !.d = r.d, !.last = r.item, !.before = rgd.d.remaining_rows,
                              !.len = IF rgd.d.column_chunks = <<>> THEN 0
                                      ELSE Head(rgd.d.column_chunks).len,
                              !.yielded = IF r.item.kind = "chunk"
                                          THEN Append(@, r.item.rows) ELSE @,
                              !.pc = IF r.item.kind \in {"none", "panic"}
                                     THEN "ended" ELSE "iter"]
    /\ DeserializerFrame

DeserializerSpecNext ==
    \/ DeserializerCreate
    \/ DeserializerNextCall

SpecDeserializer == DeserializerInit /\ [][DeserializerSpecNext]_vars

RECURSIVE SumSeq(_)
SumSeq(q) == IF q = <<>> THEN 0 ELSE Head(q) + SumSeq(Tail(q))

\* C28: the rows of the chunks yielded sum to at most min(limit, num_rows);
\* a chunk cut by the limit has exactly the rows that were still allowed;
\* remaining_rows never underflows; at remaining_rows = 0 next() is None.
C28_DeserializerWithinLimit ==
    (mode = "deserializer" /\ rgd.pc # "start") =>
        /\ SumSeq(rgd.yielded) <=
                Min(IF IsSome(rgd.limit) THEN Unwrap(rgd.limit) ELSE UsizeMax, rgd.d.num_rows)
        /\ rgd.last.kind = "chunk" => rgd.last.rows = Min(rgd.len, rgd.before)
        /\ rgd.d.remaining_rows <= rgd.d.num_rows
        /\ rgd.last.kind # "panic"
        /\ rgd.d.remaining_rows = 0 =>
                DeserializerNext(rgd.d, TRUE).item = NoItem

-----------------------------------------------------------------------------
\* RowGroupReader (io/parquet/read/file.rs 171-267).  A row group is its
\* number of rows and whether its columns can be read; a groups filter is the
\* set of the group indices it accepts; the schema is its number of fields.

RowGroup(num_rows, readable) == [num_rows |-> num_rows, readable |-> readable]

\* the row groups of a file, empty ones included: at most one of them cannot
\* be read
Files ==
    UNION {{[g \in 1..n |-> RowGroup(rows[g], g # bad)] :
                rows \in [1..n -> 0..MaxRows], bad \in 0..n} : n \in 0..MaxGroups}

GroupFilters == {None, Some({}), Some({0}), Some({1})}

\* lines 188-205
RowGroupReaderNew(schema, groups_filter, row_groups, chunk_size, limit) ==
    [schema |-> schema,
     groups_filter |-> groups_filter,
     row_groups |-> row_groups,
     chunk_size |-> chunk_size,
     remaining_rows |-> IF IsSome(limit) THEN Unwrap(limit) ELSE UsizeMax,
     current_group |-> 0]

NoGroup == [kind |-> "none", group |-> 0, d |-> DeserializerNew(<<>>, 0, None)]
GroupError(g) == [kind |-> "err", group |-> g, d |-> DeserializerNew(<<>>, 0, None)]
GroupOf(g, d) == [kind |-> "ok", group |-> g, d |-> d]

\* Mutant: a row group the filter rejects is looked at again by the next call.
RECURSIVE RowGroupReaderNext_StaysOnRejected(_)
RowGroupReaderNext_StaysOnRejected(r) ==
    IF r.schema = 0 THEN [r |-> r, item |-> NoGroup]
    ELSE IF r.current_group = Len(r.row_groups) THEN [r |-> r, item |-> NoGroup]
    ELSE IF r.remaining_rows = 0 THEN [r |-> r, item |-> NoGroup]
    ELSE LET current_row_group == r.current_group
             row_group == r.row_groups[current_row_group + 1]
             moved == [r EXCEPT !.current_group = @ + 1]
         IN IF IsSome(r.groups_filter) /\ current_row_group \notin Unwrap(r.groups_filter)
            THEN [r |-> r, item |-> NoGroup]
            ELSE IF ~row_group.readable
                 THEN [r |-> moved, item |-> GroupError(current_row_group)]
                 ELSE [r |-> [moved EXCEPT !.remaining_rows =
                                    SaturatingSub(@, row_group.num_rows)],
                       item |-> GroupOf(current_row_group,
                                    DeserializerNew(
                                        ColumnArrays(row_group.num_rows, r.chunk_size),
                                        row_group.num_rows, Some(r.remaining_rows)))]

\* lines 213-252: the reader after _next() and what it returned
RECURSIVE RowGroupReaderNext(_)
RowGroupReaderNext(r) ==
    IF r.schema = 0 THEN [r |-> r, item |-> NoGroup]
    ELSE IF r.current_group = Len(r.row_groups) THEN [r |-> r, item |-> NoGroup]
    ELSE IF r.remaining_rows = 0 THEN [r |-> r, item |-> NoGroup]
    ELSE LET current_row_group == r.current_group
             row_group == r.row_groups[current_row_group + 1]
             moved == [r EXCEPT !.current_group = @ + 1]
         IN IF IsSome(r.groups_filter) /\ current_row_group \notin Unwrap(r.groups_filter)
            THEN RowGroupReaderNext(moved)
            ELSE IF ~row_group.readable
                 THEN [r |-> moved, item |-> GroupError(current_row_group)]
                 ELSE [r |-> [moved EXCEPT !.remaining_rows =
                                    SaturatingSub(@, row_group.num_rows)],
                       item |-> GroupOf(current_row_group,
                                    DeserializerNew(
                                        ColumnArrays(row_group.num_rows, r.chunk_size),
                                        row_group.num_rows, Some(r.remaining_rows)))]

\* lines 262-265
SizeHint(r) ==
    [lower |-> Len(r.row_groups) - r.current_group,
     upper |-> Some(Len(r.row_groups) - r.current_group)]

RowGroupsFrame == UNCHANGED <<filterVars, threads, un, ba, gr, rx, rgd, fr, ipc>>

RowGroupsInit ==
    /\ mode = "row_groups"
    /\ columns = <<>>
    /\ mask = MkBoolean(<<>>, None)
    /\ resFilter = <<>>
    /\ InitLocals
    /\ threads = <<>> /\ un = <<>> /\ ba = <<>> /\ gr = <<>>
    /\ rx = <<>> /\ rgd = <<>> /\ fr = <<>> /\ ipc = <<>>
    /\ rgr = [pc |-> "start", r |-> RowGroupReaderNew(0, None, <<>>, None, None),
              last |-> NoGroup, items |-> <<>>, refiltered |-> FALSE]

RowGroupsNew ==
    /\ rgr.pc = "start"
    /\ \E schema \in 0..1 : \E groups_filter \in GroupFilters : \E row_groups \in Files :
       \E limit \in Limits :
        rgr' = [rgr EXCEPT !.pc = "iter",
                    !.r = RowGroupReaderNew(schema, groups_filter, row_groups, None, limit)]
    /\ RowGroupsFrame

\* lines 207-210, called once between two calls of next()
RowGroupsSetGroupsFilter ==
    /\ rgr.pc \in {"iter", "none"} /\ ~rgr.refiltered
    /\ \E groups_filter \in GroupFilters \ {None} :
        rgr' = [rgr EXCEPT !.r.groups_filter = groups_filter, !.refiltered = TRUE]
    /\ RowGroupsFrame

\* lines 258-260: next(); `items` lists the groups handed out, `last` what
\* the call returned; the iterator is called once more after its first None
RowGroupsNextCall ==
    /\ rgr.pc \in {"iter", "none"}
    /\ LET res == RowGroupReaderNext(rgr.r)
       IN rgr' = [rgr EXCEPT !.r = res.r, !.last = res.item,
                             !.items = IF res.item.kind = "none" THEN @
                                       ELSE Append(@, res.item.group),
                             !.pc = IF res.item.kind # "none" THEN "iter"
                                    ELSE IF @ = "iter" THEN "none" ELSE "done"]
    /\ RowGroupsFrame

RowGroupsNext ==
    \/ RowGroupsNew
    \/ RowGroupsSetGroupsFilter
    \/ RowGroupsNextCall

SpecRowGroups == RowGroupsInit /\ [][RowGroupsNext]_vars

\* a step of the model that is one call of RowGroupReader::next
IsRowGroupsNextCall ==
    rgr # <<>> /\ rgr.pc \in {"iter", "none"} /\ rgr' # rgr
    /\ rgr'.refiltered = rgr.refiltered

Accepts(groups_filter, g) == IsSome(groups_filter) => g \in Unwrap(groups_filter)

\* C26 (state part): the groups handed out so far are in strictly increasing
\* order, hence each at most once, and the cursor never exceeds the number of
\* row groups.
C26_InOrderWithinBounds ==
    rgr # <<>> =>
        /\ rgr.r.current_group <= Len(rgr.r.row_groups)
        /\ \A i \in 1..Len(rgr.items) :
            /\ rgr.items[i] < rgr.r.current_group
            /\ i > 1 => rgr.items[i - 1] < rgr.items[i]

\* C26 (step part): in a call of next() the cursor never decreases; every
\* group the call passes is handed out exactly when the filter in force
\* accepts it, and then the budget is positive and the schema has a field;
\* a call made once the last group is passed, the budget is 0 or the schema
\* is empty returns None and changes nothing.
C26_CallVisitsInOrder ==
    IsRowGroupsNextCall =>
        LET r == rgr.r
            item == rgr'.last
            passed == r.current_group .. (rgr'.r.current_group - 1)
            exhausted == \/ r.current_group = Len(r.row_groups)
                         \/ r.remaining_rows = 0
                         \/ r.schema = 0
        IN /\ rgr'.r.current_group >= r.current_group
           /\ rgr'.r.remaining_rows <= r.remaining_rows
           /\ \A g \in passed :
                /\ (item.kind # "none" /\ item.group = g) <=> Accepts(r.groups_filter, g)
                /\ Accepts(r.groups_filter, g) => r.remaining_rows > 0 /\ r.schema > 0
           /\ item.kind # "none" => item.group \in passed
           /\ exhausted => item.kind = "none" /\ rgr'.r = r
           /\ (item.kind = "none" /\ ~exhausted) =>
                /\ rgr'.r.current_group = Len(r.row_groups)
                /\ passed # {}

\* C26: RowGroupReader visits the row groups in increasing order, hands each
\* out at most once and exactly when the filter in force accepts it while
\* the budget is positive and the schema is not empty; current_group never
\* decreases nor exceeds row_groups.len(); once the last group is passed or
\* the budget is 0 every later call returns None.
C26_RowGroupsInOrder == []C26_InOrderWithinBounds /\ [][C26_CallVisitsInOrder]_vars

\* a call skipped a rejected group and handed out the one after it, the
\* filter having been replaced before, and a later call returned None
C26_Witness ==
    /\ rgr # <<>> /\ rgr.pc = "done"
    /\ rgr.refiltered
    /\ rgr.items = <<1>>
    /\ Len(rgr.r.row_groups) = 2

\* the number of items the calls of next() still to come hand out
RECURSIVE StillYielded(_)
StillYielded(r) ==
    LET res == RowGroupReaderNext(r)
    IN IF res.item.kind = "none" THEN 0 ELSE 1 + StillYielded(res.r)

\* C30: size_hint returns (n, Some(n)) with n = row_groups.len() -
\* current_group, and the number of items the iterator still yields lies
\* within the reported lower and upper bounds in every reachable state.
C30_SizeHintBounds ==
    (rgr # <<>> /\ rgr.pc # "start") =>
        LET n == Len(rgr.r.row_groups) - rgr.r.current_group
            hint == SizeHint(rgr.r)
        IN /\ hint = [lower |-> n, upper |-> Some(n)]
           /\ hint.lower <= StillYielded(rgr.r)
           /\ StillYielded(rgr.r) <= Unwrap(hint.upper)


-----------------------------------------------------------------------------
\* FileReader (io/parquet/read/file.rs 17-169) over a file of NumColumns
\* columns whose metadata is readable and whose schema can be inferred.

NumColumns == 2

Projections == {None, Some(<<>>), Some(<<0>>), Some(<<0, 1>>), Some(<<0, 0>>),
                Some(<<2>>), Some(<<0, 2>>)}

\* lines 52-67: the number of schema fields the projection keeps
ProjectedFields(projection) ==
    IF IsSome(projection)
    THEN Cardinality({index \in 0..(NumColumns - 1) :
            \E i \in 1..Len(Unwrap(projection)) : Unwrap(projection)[i] = index})
    ELSE NumColumns

NoFileReader ==
    [row_groups |-> RowGroupReaderNew(0, None, <<>>, None, None),
     remaining_rows |-> 0,
     current_row_group |-> None]

\* lines 40-99
FileTryNew(row_groups, projection, chunk_size, limit, groups_filter) ==
    LET fields == ProjectedFields(projection)
    IN IF IsSome(projection) /\ fields # Len(Unwrap(projection))
       THEN [ok |-> FALSE, error |-> InvalidArgumentError, f |-> NoFileReader]
       ELSE [ok |-> TRUE, error |-> "",
             f |-> [row_groups |-> RowGroupReaderNew(fields, groups_filter, row_groups,
                                                     chunk_size, limit),
                    remaining_rows |-> IF IsSome(limit) THEN Unwrap(limit) ELSE UsizeMax,
                    current_row_group |-> None]]

\* Mutant: the row count is reduced although fetching the row group failed.
NextRowGroup_ChargesFailedGroup(f) ==
    LET res == RowGroupReaderNext(f.row_groups)
        got == [f EXCEPT !.row_groups = res.r]
    IN [f |-> [got EXCEPT !.remaining_rows =
                    SaturatingSub(@, IF res.item.kind = "ok" THEN res.item.d.num_rows
                                     ELSE IF res.item.kind = "err" THEN 1 ELSE @)],
        result |-> res.item]

\* lines 116-127: the reader after next_row_group() and its result
NextRowGroup(f) ==
    LET res == RowGroupReaderNext(f.row_groups)
        got == [f EXCEPT !.row_groups = res.r]
    IN IF res.item.kind = "err"
       THEN [f |-> got, result |-> res.item]
       ELSE [f |-> [got EXCEPT !.remaining_rows =
                        SaturatingSub(@, IF res.item.kind = "ok" THEN res.item.d.num_rows
                                         ELSE @)],
             result |-> res.item]

\* lines 132-168: the reader after next() and the item returned
RECURSIVE FileNext(_, _)
FileNext(f, checked) ==
    IF f.remaining_rows = 0 THEN [f |-> f, item |-> NoItem]
    ELSE LET current == IF IsSome(f.current_row_group)
                        THEN DeserializerNext(Unwrap(f.current_row_group), checked)
                        ELSE [d |-> DeserializerNew(<<>>, 0, None), item |-> NoItem]
         IN IF IsSome(f.current_row_group) /\ current.item.kind # "none"
            THEN [f |-> [f EXCEPT !.current_row_group = Some(current.d)],
                  item |-> current.item]
            ELSE LET fetched == NextRowGroup(f)
                 IN IF fetched.result.kind = "ok"
                    THEN FileNext([fetched.f EXCEPT
                                      !.current_row_group = Some(fetched.result.d)],
                                  checked)
                    ELSE IF fetched.result.kind = "none"
                    THEN [f |-> [fetched.f EXCEPT !.current_row_group = None],
                          item |-> NoItem]
                    ELSE [f |-> fetched.f, item |-> ReadError]

FileFrame == UNCHANGED <<filterVars, threads, un, ba, gr, rx, rgr, rgd, ipc>>

FileInit ==
    /\ mode = "file"
    /\ columns = <<>>
    /\ mask = MkBoolean(<<>>, None)
    /\ resFilter = <<>>
    /\ InitLocals
    /\ threads = <<>> /\ un = <<>> /\ ba = <<>> /\ gr = <<>>
    /\ rx = <<>> /\ rgr = <<>> /\ rgd = <<>> /\ ipc = <<>>
    /\ fr = [pc |-> "start", projection |-> None, limit |-> None, error |-> "",
             f |-> NoFileReader, prev |-> NoFileReader, last |-> NoItem, rows |-> 0]

\* try_new; `projection` and `limit` keep its arguments
FileTryNewCall ==
    /\ fr.pc = "start"
    /\ \E row_groups \in Files : \E projection \in Projections :
       \E chunk_size \in ChunkSizes : \E limit \in Limits : \E groups_filter \in GroupFilters :
        LET res == FileTryNew(row_groups, projection, chunk_size, limit, groups_filter)
        IN fr' = [fr EXCEPT !.pc = IF res.ok THEN "iter" ELSE "failed",
                            !.projection = projection, !.limit = limit,
                            !.error = res.error, !.f = res.f, !.prev = res.f]
    /\ FileFrame

\* one call of next(); `prev` keeps the reader the call was made on, `rows`
\* counts the rows of the chunks yielded
FileNextCall ==
    /\ fr.pc = "iter"
    /\ \E checked \in BOOLEAN :
        LET res == FileNext(fr.f, checked)
        IN fr' = [fr EXCEPT !.f = res.f, !.prev = fr.f, !.last = res.item,
                            !.rows = IF res.item.kind = "chunk" THEN @ + res.item.rows ELSE @,
                            !.pc = IF res.item.kind \in {"none", "panic"}
                                   THEN "ended" ELSE "iter"]
    /\ FileFrame

FileSpecNext ==
    \/ FileTryNewCall
    \/ FileNextCall

SpecFile == FileInit /\ [][FileSpecNext]_vars

\* C22: FileReader::try_new fails, with InvalidArgumentError, if and only if
\* the projection contains a column index that is not in the file's schema;
\* every projection made only of existing column indices is accepted.
C22_TryNewFailsIffMissingColumn ==
    (fr # <<>> /\ fr.pc # "start") =>
        LET missing == /\ IsSome(fr.projection)
                       /\ \E i \in 1..Len(Unwrap(fr.projection)) :
                            Unwrap(fr.projection)[i] \notin 0..(NumColumns - 1)
        IN /\ (fr.pc = "failed") <=> missing
           /\ fr.pc = "failed" => fr.error = InvalidArgumentError

\* the rows of the row groups the groups filter accepts
RECURSIVE AcceptedRows(_, _, _)
AcceptedRows(row_groups, groups_filter, g) ==
    IF g = Len(row_groups) THEN 0
    ELSE (IF Accepts(groups_filter, g) THEN row_groups[g + 1].num_rows ELSE 0)
            + AcceptedRows(row_groups, groups_filter, g + 1)

\* C21: over a file whose row groups can all be read, with a schema of at
\* least one field, a FileReader stops having yielded min(L, rows of the
\* accepted row groups) rows under the limit L, and all of them without limit.
C21_YieldsUpToLimit ==
    (/\ fr # <<>> /\ fr.pc = "ended"
     /\ fr.f.row_groups.schema > 0
     /\ \A g \in 1..Len(fr.f.row_groups.row_groups) : fr.f.row_groups.row_groups[g].readable) =>
        LET total == AcceptedRows(fr.f.row_groups.row_groups,
                                  fr.f.row_groups.groups_filter, 0)
        IN /\ fr.last.kind = "none"
           /\ fr.rows = IF IsSome(fr.limit) THEN Min(Unwrap(fr.limit), total) ELSE total

\* what the call of next() that returned a read error did to the row group
\* reader: the cursor stands just past the row group that cannot be read,
\* the row budget is the one before the call, and the call after this one
\* does not meet the failed row group again
C27_FailedGroupLeftBehind ==
    LET r == fr.f.row_groups
        p == fr.prev.row_groups
    IN /\ r.current_group > p.current_group
       /\ ~r.row_groups[r.current_group].readable
       /\ Accepts(p.groups_filter, r.current_group - 1)
       /\ r.remaining_rows = p.remaining_rows
       /\ fr.f.remaining_rows = fr.prev.remaining_rows
       /\ \A checked \in BOOLEAN :
            LET following == FileNext(fr.f, checked)
            IN /\ following.item.kind # "err"
               /\ following.f.row_groups.current_group >= r.current_group

\* C27 as stated: when reading the columns of a row group fails the error is
\* returned, the cursor is past the failed group, the budget is not reduced,
\* the following call continues with the next group, and FileReader::next
\* has changed neither its current row group nor its remaining row count.
C27_ErrorChangesNothing ==
    (fr # <<>> /\ fr.last.kind = "err") =>
        /\ C27_FailedGroupLeftBehind
        /\ fr.f.current_row_group = fr.prev.current_row_group

\* C27 (amended): as above, but the current row group of the FileReader may
\* have been replaced, in the same call, by a row group without rows that
\* was fetched successfully before the one that failed.
C27_ErrorKeepsCounts ==
    (fr # <<>> /\ fr.last.kind = "err") =>
        /\ C27_FailedGroupLeftBehind
        /\ \/ fr.f.current_row_group = fr.prev.current_row_group
           \/ /\ IsSome(fr.f.current_row_group)
              /\ Unwrap(fr.f.current_row_group).num_rows = 0
              /\ \E g \in fr.prev.row_groups.current_group ..
                          (fr.f.row_groups.current_group - 2) :
                    /\ fr.f.row_groups.row_groups[g + 1].num_rows = 0
                    /\ fr.f.row_groups.row_groups[g + 1].readable
                    /\ Accepts(fr.prev.row_groups.groups_filter, g)

\* a call met a row group that cannot be read while a row group was current
\* and rows were left, and returned the error
C27_Witness ==
    /\ fr # <<>> /\ fr.last.kind = "err"
    /\ IsSome(fr.prev.current_row_group)
    /\ fr.f.current_row_group = fr.prev.current_row_group
    /\ fr.f.remaining_rows > 0
    /\ fr.f.row_groups.current_group = 2

-----------------------------------------------------------------------------
\* skip_map (io/ipc/read/array/map.rs 72-91) over the queues of field nodes
\* and buffers of a record batch.  Nodes and buffers are named by their
\* position in the batch.

MaxQueue == 3

OutOfSpec(msg) == [outcome |-> "err", kind |-> "OutOfSpec", msg |-> msg]
SkipOk == [outcome |-> "ok", kind |-> "", msg |-> ""]
SkipPending == [outcome |-> "pending", kind |-> "", msg |-> ""]

\* VecDeque::pop_front
PopFront(q) == IF q = <<>> THEN [value |-> None, rest |-> q]
               ELSE [value |-> Some(Head(q)), rest |-> Tail(q)]

\* the outcomes of skip(field_nodes, data_type, buffers) on the child field:
\* it removes nodes and buffers from the front of what is left and may fail
SkipOutcomes(field_nodes, buffers) ==
    {[field_nodes |-> SubSeq(field_nodes, k + 1, Len(field_nodes)),
      buffers |-> SubSeq(buffers, j + 1, Len(buffers)),
      result |-> res] :
        k \in 0..Len(field_nodes), j \in 0..Len(buffers),
        res \in {SkipOk, OutOfSpec("child")}}

SkipMapFrame == UNCHANGED <<filterVars, threads, un, ba, gr, rx, rgr, rgd, fr>>

SkipMapInit ==
    /\ mode = "skip_map"
    /\ columns = <<>>
    /\ mask = MkBoolean(<<>>, None)
    /\ resFilter = <<>>
    /\ InitLocals
    /\ threads = <<>> /\ un = <<>> /\ ba = <<>> /\ gr = <<>>
    /\ rx = <<>> /\ rgr = <<>> /\ rgd = <<>> /\ fr = <<>>
    /\ ipc = [pc |-> "start", field_nodes |-> <<>>, buffers |-> <<>>,
              nodes0 |-> <<>>, buffers0 |-> <<>>, taken |-> <<>>,
              child |-> FALSE, result |-> SkipPending]

\* the call: the queues as the caller hands them over
SkipMapEntry ==
    /\ ipc.pc = "start"
    /\ \E n \in 0..MaxQueue : \E m \in 0..(MaxQueue + 1) :
        LET field_nodes == [i \in 1..n |-> i]
            buffers == [i \in 1..m |-> i]
        IN ipc' = [ipc EXCEPT !.pc = "node", !.field_nodes = field_nodes,
                              !.buffers = buffers, !.nodes0 = field_nodes,
                              !.buffers0 = buffers]
    /\ SkipMapFrame

\* Mutant: a missing field node is ignored.
SkipMapFieldNode_Lenient ==
    /\ ipc.pc = "node"
    /\ LET popped == PopFront(ipc.field_nodes)
       IN ipc' = [ipc EXCEPT !.pc = "validity", !.field_nodes = popped.rest,
                             !.taken = IF IsSome(popped.value)
                                       THEN Append(@, <<"node", Unwrap(popped.value)>>)
                                       ELSE @]
    /\ SkipMapFrame

\* lines 77-79; `taken` lists what skip_map itself removed, in order
SkipMapFieldNode ==
    /\ ipc.pc = "node"
    /\ LET popped == PopFront(ipc.field_nodes)
       IN IF IsSome(popped.value)
          THEN ipc' = [ipc EXCEPT !.pc = "validity", !.field_nodes = popped.rest,
                                  !.taken = Append(@, <<"node", Unwrap(popped.value)>>)]
          ELSE ipc' = [ipc EXCEPT !.pc = "done",
                                  !.result = OutOfSpec("field")]
    /\ SkipMapFrame

\* lines 81-83
SkipMapValidity ==
    /\ ipc.pc = "validity"
    /\ LET popped == PopFront(ipc.buffers)
       IN IF IsSome(popped.value)
          THEN ipc' = [ipc EXCEPT !.pc = "offsets", !.buffers = popped.rest,
                                  !.taken = Append(@, <<"buffer", Unwrap(popped.value)>>)]
          ELSE ipc' = [ipc EXCEPT !.pc = "done",
                                  !.result = OutOfSpec("validity")]
    /\ SkipMapFrame

\* lines 84-86
SkipMapOffsets ==
    /\ ipc.pc = "offsets"
    /\ LET popped == PopFront(ipc.buffers)
       IN IF IsSome(popped.value)
          THEN ipc' = [ipc EXCEPT !.pc = "child", !.buffers = popped.rest,
                                  !.taken = Append(@, <<"buffer", Unwrap(popped.value)>>)]
          ELSE ipc' = [ipc EXCEPT !.pc = "done",
                                  !.result = OutOfSpec("offsets")]
    /\ SkipMapFrame

\* lines 88-90: the child field is skipped and its result returned
SkipMapChild ==
    /\ ipc.pc = "child"
    /\ \E out \in SkipOutcomes(ipc.field_nodes, ipc.buffers) :
        ipc' = [ipc EXCEPT !.pc = "done", !.field_nodes = out.field_nodes,
                           !.buffers = out.buffers, !.child = TRUE,
                           !.result = out.result]
    /\ SkipMapFrame

SkipMapNext ==
    \/ SkipMapEntry
    \/ SkipMapFieldNode
    \/ SkipMapValidity
    \/ SkipMapOffsets
    \/ SkipMapChild

SpecSkipMap == SkipMapInit /\ [][SkipMapNext]_vars

\* what skip_map removes for the map itself when nothing is missing
MapOwn == <<<<"node", 1>>, <<"buffer", 1>>, <<"buffer", 2>>>>

IsPrefix(p, q) == Len(p) <= Len(q) /\ SubSeq(q, 1, Len(p)) = p

\* C29: skip_map removes from the front of the queues one field node, then
\* the validity buffer, then the offsets buffer, and only then skips the
\* child field; a missing node or buffer gives an out-of-spec error and no
\* panic; it never removes more than one node and two buffers for the map.
C29_SkipMapRemovals ==
    (ipc # <<>> /\ ipc.pc # "start") =>
        LET missing == IF ipc.nodes0 = <<>> THEN "field"
                       ELSE IF ipc.buffers0 = <<>> THEN "validity"
                       ELSE IF Len(ipc.buffers0) = 1 THEN "offsets"
                       ELSE ""
        IN /\ IsPrefix(ipc.taken, MapOwn)
           /\ ~ipc.child =>
                /\ ipc.field_nodes = SubSeq(ipc.nodes0,
                        Cardinality({i \in 1..Len(ipc.taken) : ipc.taken[i][1] = "node"}) + 1,
                        Len(ipc.nodes0))
                /\ ipc.buffers = SubSeq(ipc.buffers0,
                        Cardinality({i \in 1..Len(ipc.taken) : ipc.taken[i][1] = "buffer"}) + 1,
                        Len(ipc.buffers0))
           /\ ipc.pc \in {"child", "done"} /\ (ipc.child \/ ipc.pc = "child")
                => ipc.taken = MapOwn
           /\ ipc.pc = "done" =>
                /\ ipc.result.outcome \in {"ok", "err"}
                /\ ipc.child <=> missing = ""
                /\ missing # "" => ipc.result = OutOfSpec(missing)

\* the offsets buffer was missing: one node and one buffer have been removed,
\* the child was not skipped and the out-of-spec error was returned
C29_Witness ==
    /\ ipc # <<>> /\ ipc.pc = "done"
    /\ ipc.result = OutOfSpec("offsets")
    /\ Len(ipc.taken) = 2
    /\ Len(ipc.nodes0) > 1
=============================================================================
